---- MODULE Spec2Model ----
(***************************************************************************)
(* Hart.MCP.Native: the 4D Hilbert codec (hilbert.c), the content-hash     *)
(* engine (content_hash.c) and the bulk-ingestion orchestrator             *)
(* (bulk_ingestion.cpp), modelled as state machines.                       *)
(*                                                                         *)
(* Numbers.  TLC integers are 32 bits wide, so                              *)
(*  - a uint64_t is a function 0..15 -> 0..15 of its hexadecimal digits,   *)
(*    digit i holding bits 4i..4i+3;                                       *)
(*  - a float (uint32_t bit pattern) is a record [sign, mag], the pattern  *)
(*    being sign * 2^31 + mag;                                             *)
(*  - a double coordinate is a fixed-point integer, CELL_UNITS units per   *)
(*    quantization cell, so that -1.0, +1.0, every cell centre and every   *)
(*    rounding boundary of quantize_coord are exact; the rounding error of *)
(*    the double arithmetic in dequantize_coord (far below one unit) is    *)
(*    over-approximated by an error of -1, 0 or +1 unit.                   *)
(***************************************************************************)
EXTENDS Integers, Sequences, FiniteSets, TLC

VARIABLES
    hx,     \* one run of the Hilbert codec: input point, key, decoded point
    hc,     \* two calls of hash_composition: arguments, bytes fed, digests
    ing,    \* the frame of the running ingestion call (locals, result, pc)
    db,     \* the connection and the store behind it
    pending, \* the ingestion calls still to be made on the connection
    simd    \* simd.c: the CPU, the detection cache, the calling threads

hilbertVars == <<hx>>
hashVars == <<hc>>
ingestVars == <<ing, db, pending>>
simdVars == <<simd>>
vars == <<hx, hc, ing, db, pending, simd>>

\* value of a variable that takes no part in the behaviour
Idle == [phase |-> "idle"]

(***************************************************************************)
(* Bit helpers (C operators >>, &, ^, | on small unsigned values).         *)
(***************************************************************************)
\* 1 << n, n in 0..30
Pow2(n) ==
    <<1, 2, 4, 8, 16, 32, 64, 128, 256, 512, 1024, 2048, 4096, 8192, 16384,
      32768, 65536, 131072, 262144, 524288, 1048576, 2097152, 4194304,
      8388608, 16777216, 33554432, 67108864, 134217728, 268435456,
      536870912, 1073741824>>[n + 1]

BitAt(x, i) == (x \div Pow2(i)) % 2

\* a ^ b on 4-bit values
Xor4(a, b) ==
    ((BitAt(a, 0) + BitAt(b, 0)) % 2)
  + ((BitAt(a, 1) + BitAt(b, 1)) % 2) * 2
  + ((BitAt(a, 2) + BitAt(b, 2)) % 2) * 4
  + ((BitAt(a, 3) + BitAt(b, 3)) % 2) * 8

\* a | b on 4-bit values
Or4(a, b) ==
    (IF BitAt(a, 0) + BitAt(b, 0) > 0 THEN 1 ELSE 0)
  + (IF BitAt(a, 1) + BitAt(b, 1) > 0 THEN 2 ELSE 0)
  + (IF BitAt(a, 2) + BitAt(b, 2) > 0 THEN 4 ELSE 0)
  + (IF BitAt(a, 3) + BitAt(b, 3) > 0 THEN 8 ELSE 0)

\* a 4-element C array, indexed 0..3
Vec4(a, b, c, d) == (0 :> a) @@ (1 :> b) @@ (2 :> c) @@ (3 :> d)

\* uint64_t zero, as 16 hexadecimal digits
U64Zero == [i \in 0..15 |-> 0]

\* v |= (nibble << shift) for a shift that is a multiple of 4
U64OrShifted(v, nibble, shift) ==
    [v EXCEPT ![shift \div 4] = Or4(@, nibble)]

\* (v >> shift) & 0xF for a shift that is a multiple of 4
U64Nibble(v, shift) == v[shift \div 4]

(***************************************************************************)
(* hilbert.h / hilbert.c constants.                                        *)
(***************************************************************************)
HILBERT_BITS_PER_DIM == 16

\* max_val = (1U << HILBERT_BITS_PER_DIM) - 1
MAX_VAL == Pow2(HILBERT_BITS_PER_DIM) - 1

\* fixed-point units per quantization cell: (COORD_MAX - COORD_MIN) / max_val
CELL_UNITS == 8

COORD_MAX == (MAX_VAL * CELL_UNITS) \div 2
COORD_MIN == -COORD_MAX

(***************************************************************************)
(* Gray code conversions.                                                  *)
(***************************************************************************)
binary_to_gray_4(n) == Xor4(n, n \div 2)

gray_to_binary_4_NoShift2(g) == Xor4(g, g \div 2)

gray_to_binary_4(g) ==
    LET n1 == Xor4(g, g \div 4)
    IN  Xor4(n1, n1 \div 2)

(***************************************************************************)
(* Quantization.  value, min, max in fixed-point units.                    *)
(***************************************************************************)
\* the mutant truncates instead of rounding to nearest
quantize_coord_Truncating(value, min, max) ==
    LET n == value - min
        d == max - min
        c == IF n < 0 THEN 0 ELSE IF n > d THEN d ELSE n
    IN  c \div (d \div MAX_VAL)

\* normalized = (value - min) / (max - min), clamped to [0, 1];
\* (uint32_t)(normalized * max_val + 0.5).  n / d * max_val = n / CELL_UNITS.
quantize_coord(value, min, max) ==
    LET n == value - min
        d == max - min
        c == IF n < 0 THEN 0 ELSE IF n > d THEN d ELSE n
        cell == d \div MAX_VAL
    IN  (2 * c + cell) \div (2 * cell)

\* normalized = quantized / max_val; normalized * (max - min) + min
dequantize_coord(quantized, min, max) ==
    quantized * ((max - min) \div MAX_VAL) + min

(***************************************************************************)
(* Rotation state.                                                         *)
(***************************************************************************)
INITIAL_STATE == [perm |-> [d \in 0..3 |-> d], flip |-> 0]

\* the last i in 0..3 with bit i of gray_code set; 0 when none is
HighestSetBit(gray_code) ==
    IF BitAt(gray_code, 3) = 1 THEN 3
    ELSE IF BitAt(gray_code, 2) = 1 THEN 2
    ELSE IF BitAt(gray_code, 1) = 1 THEN 1
    ELSE 0

update_rotation(state, gray_code) ==
    LET axis == HighestSetBit(gray_code)
    IN  IF gray_code # 0 /\ gray_code # 15
        THEN LET d1 == state.perm[0]
                 d2 == state.perm[axis]
             IN  [perm |-> [[state.perm EXCEPT ![0] = d2] EXCEPT ![axis] = d1],
                  flip |-> Xor4(state.flip, Pow2(d1))]
        ELSE state

(***************************************************************************)
(* Forward transform: the per-level loop of coords_to_hilbert.             *)
(***************************************************************************)
\* bits |= 1 << d for every d whose permuted coordinate has `bit` set
GatherBits(coords, perm, bit) ==
    BitAt(coords[perm[0]], bit)
  + BitAt(coords[perm[1]], bit) * 2
  + BitAt(coords[perm[2]], bit) * 4
  + BitAt(coords[perm[3]], bit) * 8

RECURSIVE EncodeLevels(_, _, _, _)
EncodeLevels(coords, bit, state, result) ==
    IF bit < 0 THEN result
    ELSE LET bits == Xor4(GatherBits(coords, state.perm, bit), state.flip)
             gray == binary_to_gray_4(bits)
             shift_amount == bit * 4
             result2 == IF shift_amount < 64
                        THEN [result EXCEPT !.low = U64OrShifted(@, gray, shift_amount)]
                        ELSE [result EXCEPT !.high = U64OrShifted(@, gray, shift_amount - 64)]
         IN  EncodeLevels(coords, bit - 1, update_rotation(state, gray), result2)

\* coords[4] of coords_to_hilbert
QuantizePoint(p) ==
    Vec4(quantize_coord(p[0], COORD_MIN, COORD_MAX),
         quantize_coord(p[1], COORD_MIN, COORD_MAX),
         quantize_coord(p[2], COORD_MIN, COORD_MAX),
         quantize_coord(p[3], COORD_MIN, COORD_MAX))

coords_to_hilbert(p) ==
    EncodeLevels(QuantizePoint(p), HILBERT_BITS_PER_DIM - 1, INITIAL_STATE,
                 [high |-> U64Zero, low |-> U64Zero])

(***************************************************************************)
(* Inverse transform: the per-level loop of hilbert_to_coords.             *)
(***************************************************************************)
\* v | (1U << bit)
OrBit(v, bit) == IF BitAt(v, bit) = 1 THEN v ELSE v + Pow2(bit)

\* coords[state.perm[d]] |= 1 << bit for every d with bit d of `bits` set
ScatterBits(coords, perm, bits, bit) ==
    LET Cell(c) == IF \E d \in 0..3 : perm[d] = c /\ BitAt(bits, d) = 1
                   THEN OrBit(coords[c], bit) ELSE coords[c]
    IN  Vec4(Cell(0), Cell(1), Cell(2), Cell(3))

RECURSIVE DecodeLevels(_, _, _, _)
DecodeLevels(h, bit, state, coords) ==
    IF bit < 0 THEN coords
    ELSE LET shift_amount == bit * 4
             gray == IF shift_amount < 64
                     THEN U64Nibble(h.low, shift_amount)
                     ELSE U64Nibble(h.high, shift_amount - 64)
             bits == Xor4(gray_to_binary_4(gray), state.flip)
         IN  DecodeLevels(h, bit - 1, update_rotation(state, gray),
                          ScatterBits(coords, state.perm, bits, bit))

\* coords[4] at the end of the loop of hilbert_to_coords
DecodeCells(h) ==
    DecodeLevels(h, HILBERT_BITS_PER_DIM - 1, INITIAL_STATE, Vec4(0, 0, 0, 0))

\* the doubles written to *x, *y, *z, *m; err[d] is the rounding error of the
\* double arithmetic of dequantize_coord on axis d
hilbert_to_coords(h, err) ==
    LET coords == DecodeCells(h)
    IN  Vec4(dequantize_coord(coords[0], COORD_MIN, COORD_MAX) + err[0],
             dequantize_coord(coords[1], COORD_MIN, COORD_MAX) + err[1],
             dequantize_coord(coords[2], COORD_MIN, COORD_MAX) + err[2],
             dequantize_coord(coords[3], COORD_MIN, COORD_MAX) + err[3])

(***************************************************************************)
(* Inputs of the codec runs.  The HFreeBits most significant coordinate    *)
(* bits (taken level by level, axis by axis) are free; the remaining low   *)
(* bits of each axis are filled with one of the FillPatterns.  A           *)
(* coordinate is the centre of its cell plus one of the Offsets.           *)
(***************************************************************************)
HFreeBits == 4

\* number of free top bits of axis d
FreeBitsOf(d) == (HFreeBits - d + 3) \div 4

\* all zeros, all ones, 0101..01
FillPatterns == {0, MAX_VAL, MAX_VAL \div 3}

\* the cell of axis d: free bits from `top`, low bits from `fill`
SampleCell(d, top, fill) ==
    LET n == FreeBitsOf(d)
    IN  top * Pow2(HILBERT_BITS_PER_DIM - n) + (fill % Pow2(HILBERT_BITS_PER_DIM - n))

SampleCells ==
    { Vec4(SampleCell(0, t[0], f[0]), SampleCell(1, t[1], f[1]),
           SampleCell(2, t[2], f[2]), SampleCell(3, t[3], f[3])) :
        t \in { tt \in [0..3 -> 0..(Pow2(FreeBitsOf(0)) - 1)] :
                   \A d \in 0..3 : tt[d] < Pow2(FreeBitsOf(d)) },
        f \in [0..3 -> FillPatterns] }

\* offsets from the cell centre: a point of the cell below (clamped to the
\* first cell), the upper rounding boundary of the cell, a point of the cell
\* above (clamped to the last cell)
Offsets == {-(CELL_UNITS \div 2) - CELL_UNITS, (CELL_UNITS \div 2) - 1,
            (CELL_UNITS \div 2) - 1 + CELL_UNITS}

RoundingErrors == {-1, 0, 1}

HilbertInit ==
    /\ \E q \in SampleCells, off \in Offsets :
        hx = [phase |-> "input",
              p |-> Vec4(dequantize_coord(q[0], COORD_MIN, COORD_MAX) + off,
                         dequantize_coord(q[1], COORD_MIN, COORD_MAX) + off,
                         dequantize_coord(q[2], COORD_MIN, COORD_MAX) + off,
                         dequantize_coord(q[3], COORD_MIN, COORD_MAX) + off),
              cells |-> Vec4(0, 0, 0, 0),
              key |-> [high |-> U64Zero, low |-> U64Zero],
              dcells |-> Vec4(0, 0, 0, 0),
              p2 |-> Vec4(0, 0, 0, 0),
              key2 |-> [high |-> U64Zero, low |-> U64Zero]]
    /\ hc = Idle /\ simd = Idle
    /\ ing = Idle /\ db = Idle /\ pending = <<>>

\* h = coords_to_hilbert(x, y, z, m)
HEncode ==
    /\ hx.phase = "input"
    /\ hx' = [hx EXCEPT !.phase = "encoded",
                        !.cells = QuantizePoint(hx.p),
                        !.key = coords_to_hilbert(hx.p)]
    /\ UNCHANGED <<hashVars, ingestVars, simdVars>>

\* hilbert_to_coords(h, &x2, &y2, &z2, &m2)
HDecode ==
    /\ hx.phase = "encoded"
    /\ \E e \in RoundingErrors :
         hx' = [hx EXCEPT !.phase = "decoded",
                          !.dcells = DecodeCells(hx.key),
                          !.p2 = hilbert_to_coords(hx.key, Vec4(e, e, e, e))]
    /\ UNCHANGED <<hashVars, ingestVars, simdVars>>

\* h2 = coords_to_hilbert(x2, y2, z2, m2)
HReencode ==
    /\ hx.phase = "decoded"
    /\ hx' = [hx EXCEPT !.phase = "reencoded",
                        !.key2 = coords_to_hilbert(hx.p2)]
    /\ UNCHANGED <<hashVars, ingestVars, simdVars>>

HilbertNext == HEncode \/ HDecode \/ HReencode

SpecHilbert == HilbertInit /\ [][HilbertNext]_vars

\* C1: decoding the key of a quantized 4-tuple gives back exactly that
\* 4-tuple: the per-level decode loop inverts the per-level encode loop.
C1_DecodeInvertsEncode ==
    hx.phase \in {"decoded", "reencoded"} => hx.dcells = hx.cells

C1_Witness ==
    /\ hx.phase = "decoded"
    /\ hx.dcells = hx.cells
    /\ \E d \in 0..3 : hx.cells[d] \notin {0, MAX_VAL}
    /\ \E a, b \in 0..3 : hx.cells[a] # hx.cells[b]

\* C2: re-encoding the decoded point of a produced key gives the same key,
\* in both halves.
C2_FixedPoint ==
    hx.phase = "reencoded" =>
        /\ hx.key2.high = hx.key.high
        /\ hx.key2.low = hx.key.low

C2_Witness ==
    /\ hx.phase = "reencoded"
    /\ hx.key2 = hx.key
    /\ hx.key.low # U64Zero
    /\ hx.p2 # hx.p

(***************************************************************************)
(* Content-hash engine (content_hash.c).  A ContentHash is a sequence of   *)
(* HASH_SIZE bytes.  The bytes passed to blake3_hasher_update are kept as  *)
(* a byte sequence; BLAKE3 itself is an external library, modelled as a    *)
(* collision-free function of the bytes fed.                               *)
(***************************************************************************)
HASH_SIZE == 32

\* the sizeof(uint32_t) bytes of an object in memory, on the given host;
\* the value is top * 2^31 + low31
MemBytes32(top, low31, host) ==
    LET b0 == low31 % 256
        b1 == (low31 \div 256) % 256
        b2 == (low31 \div 65536) % 256
        b3 == (low31 \div 16777216) + 128 * top
    IN  IF host = "little" THEN <<b0, b1, b2, b3>> ELSE <<b3, b2, b1, b0>>

\* the bytes of an int32_t (two's complement)
Int32Bytes(v, host) ==
    IF v < 0 THEN MemBytes32(1, (v + 1073741824) + 1073741824, host)
    ELSE MemBytes32(0, v, host)

\* blake3_hasher_init; blake3_hasher_update...; blake3_hasher_finalize
Blake3(fed) == [blake3 |-> fed]

\* the mutant feeds the child hashes only
CompositionFeed_NoMultiplicity(child_hashes, multiplicities, count, host) ==
    LET F[i \in 0..count] ==
            IF i = 0 THEN <<>> ELSE F[i - 1] \o child_hashes[i]
    IN  F[count]

\* the bytes hash_composition feeds: for i < count, child_hashes[i].bytes
\* then the bytes of multiplicities[i]  (C index i is sequence index i + 1)
CompositionFeed(child_hashes, multiplicities, count, host) ==
    LET F[i \in 0..count] ==
            IF i = 0 THEN <<>>
            ELSE F[i - 1] \o child_hashes[i] \o Int32Bytes(multiplicities[i], host)
    IN  F[count]

hash_composition(child_hashes, multiplicities, count, host) ==
    Blake3(CompositionFeed(child_hashes, multiplicities, count, host))

(***************************************************************************)
(* Inputs of the composition-hash runs: two calls on one host.             *)
(***************************************************************************)
MaxChildren == 2

\* two child hashes that differ in their last byte only
SampleDigests ==
    { [i \in 1..HASH_SIZE |-> IF i = HASH_SIZE THEN last ELSE (7 * i) % 256] :
        last \in {1, 2} }

SampleMultiplicities == {1, 2}

CompositionArgs ==
    UNION { { [child_hashes |-> c, multiplicities |-> m, count |-> n] :
                c \in [1..n -> SampleDigests], m \in [1..n -> SampleMultiplicities] } :
            n \in 0..MaxChildren }

Hosts == {"little", "big"}

HashInit ==
    /\ \E a \in CompositionArgs, b \in CompositionArgs, host \in Hosts :
         hc = [phase |-> "args", host |-> host, a |-> a, b |-> b,
               fedA |-> <<>>, fedB |-> <<>>,
               outA |-> Blake3(<<>>), outB |-> Blake3(<<>>)]
    /\ hx = Idle /\ simd = Idle
    /\ ing = Idle /\ db = Idle /\ pending = <<>>

\* comp_a = hash_composition(children_a, mults_a, n_a)
HashFirst ==
    /\ hc.phase = "args"
    /\ hc' = [hc EXCEPT
                !.phase = "first",
                !.fedA = CompositionFeed(hc.a.child_hashes, hc.a.multiplicities,
                                         hc.a.count, hc.host),
                !.outA = hash_composition(hc.a.child_hashes, hc.a.multiplicities,
                                          hc.a.count, hc.host)]
    /\ UNCHANGED <<hilbertVars, simdVars, ingestVars>>

\* comp_b = hash_composition(children_b, mults_b, n_b)
HashSecond ==
    /\ hc.phase = "first"
    /\ hc' = [hc EXCEPT
                !.phase = "both",
                !.fedB = CompositionFeed(hc.b.child_hashes, hc.b.multiplicities,
                                         hc.b.count, hc.host),
                !.outB = hash_composition(hc.b.child_hashes, hc.b.multiplicities,
                                          hc.b.count, hc.host)]
    /\ UNCHANGED <<hilbertVars, simdVars, ingestVars>>

HashNext == HashFirst \/ HashSecond

SpecHash == HashInit /\ [][HashNext]_vars

\* hash_equal(&comp_a, &comp_b)
hash_equal(a, b) == a = b

\* the list of (child, multiplicity) pairs of a call
PairList(args) ==
    [i \in 1..args.count |-> <<args.child_hashes[i], args.multiplicities[i]>>]

\* C10: composition hashing is order-sensitive and multiplicity-sensitive:
\* each call feeds child i (32 bytes) then multiplicity i (4 bytes) in order,
\* and two calls whose (child, multiplicity) lists differ in order or in a
\* multiplicity feed different bytes and produce different digests.
C10_OrderAndMultiplicitySensitive ==
    hc.phase = "both" =>
        /\ Len(hc.fedA) = (HASH_SIZE + 4) * hc.a.count
        /\ \A i \in 1..hc.a.count :
             /\ SubSeq(hc.fedA, (i - 1) * (HASH_SIZE + 4) + 1,
                       (i - 1) * (HASH_SIZE + 4) + HASH_SIZE) = hc.a.child_hashes[i]
             /\ SubSeq(hc.fedA, (i - 1) * (HASH_SIZE + 4) + HASH_SIZE + 1,
                       i * (HASH_SIZE + 4)) = Int32Bytes(hc.a.multiplicities[i], hc.host)
        /\ (PairList(hc.a) # PairList(hc.b) =>
                /\ hc.fedA # hc.fedB
                /\ ~hash_equal(hc.outA, hc.outB))

\* [A,B] against [B,A] with A # B, and [A]x1 against [A]x2
C10_Witness ==
    /\ hc.phase = "both"
    /\ ~hash_equal(hc.outA, hc.outB)
    /\ \/ /\ hc.a.count = 2 /\ hc.b.count = 2
          /\ hc.a.child_hashes[1] # hc.a.child_hashes[2]
          /\ hc.b.child_hashes = <<hc.a.child_hashes[2], hc.a.child_hashes[1]>>
          /\ hc.a.multiplicities = <<1, 1>> /\ hc.b.multiplicities = <<1, 1>>
       \/ /\ hc.a.count = 1 /\ hc.b.count = 1
          /\ hc.a.child_hashes = hc.b.child_hashes
          /\ hc.a.multiplicities = <<1>> /\ hc.b.multiplicities = <<2>>

(***************************************************************************)
(* uint32_t values: [top, low], the value being top * 2^31 + low.          *)
(***************************************************************************)
U32(n) == [top |-> 0, low |-> n]

U32Leq(a, b) == a.top < b.top \/ (a.top = b.top /\ a.low <= b.low)

\* a + 1, wrapping at 2^32
U32Inc(a) ==
    IF a.low = 2147483647
    THEN [top |-> 1 - a.top, low |-> 0]
    ELSE [top |-> a.top, low |-> a.low + 1]

\* a - b, wrapping at 2^32
U32Sub(a, b) ==
    LET borrow == IF a.low < b.low THEN 1 ELSE 0
        low == IF a.low < b.low
               THEN ((a.low - b.low) + 1073741824) + 1073741824
               ELSE a.low - b.low
    IN  [top |-> (a.top + b.top + borrow) % 2, low |-> low]

(***************************************************************************)
(* Result codes (types.h), seed types (atom_seed.h).                       *)
(***************************************************************************)
HART_OK == 0
HART_ERROR_DB_CONNECTION == -1
HART_ERROR_DB_QUERY == -2
HART_ERROR_INVALID_INPUT == -3

SEED_UNICODE == 0
SEED_FLOAT_BITS == 2

\* byte order of the machine the ingestion runs on
IngestHost == "little"

\* the sizeof(uint32_t) bytes at &seed on the given host
compute_seed_hash_bytes(seed, host) == MemBytes32(seed.top, seed.low, host)

\* the bytes compute_seed_hash(seed) feeds: &seed, sizeof(uint32_t), as the
\* host lays them out
compute_seed_hash_feed(seed) == compute_seed_hash_bytes(seed, IngestHost)

compute_seed_hash(seed) == Blake3(compute_seed_hash_feed(seed))

(***************************************************************************)
(* The store behind the PGconn.  db.copies is the sequence of COPY streams *)
(* opened on the connection: the rows written, how the stream was closed   *)
(* ("end": PQputCopyEnd(conn, NULL) succeeded, "error": PQputCopyEnd(conn, *)
(* "error"), "open": never closed) and whether the store committed it.     *)
(* db.table is the sequence of rows the store holds.                       *)
(***************************************************************************)
COPY_BATCH_SIZE == 2

NewDb(faulty) == [copies |-> <<>>, table |-> <<>>, faulty |-> faulty, unique |-> FALSE]

\* a store whose table has the constraint content_hash ... UNIQUE
UniqueDb == [NewDb(FALSE) EXCEPT !.unique = TRUE]

\* a row of the batch repeats the content_hash of a stored row or of
\* another row of the batch
Conflicts(d, atoms) ==
    \E i \in 1..Len(atoms) :
        \/ \E t \in 1..Len(d.table) : d.table[t].hash = atoms[i].hash
        \/ \E j \in 1..Len(atoms) : j # i /\ atoms[j].hash = atoms[i].hash

\* what libpq and the store can answer to one bulk_insert_atoms call; a
\* connection that is not faulty accepts every batch, except that a COPY
\* which violates the unique constraint ends with an error result
CopyOutcomes(d, atoms) ==
    IF d.unique /\ Conflicts(d, atoms)
    THEN { [kind |-> "result_fail", at |-> 0] }
    ELSE IF d.faulty /\ atoms # <<>>
    THEN { [kind |-> k, at |-> 0] : k \in {"ok", "start_fail", "end_fail", "result_fail"} }
         \cup { [kind |-> "row_fail", at |-> k] : k \in 1..Len(atoms) }
    ELSE { [kind |-> "ok", at |-> 0] }

\* the format named by the COPY command of bulk_insert_atoms
CopyFormat == "text"

\* the payload of one PQputCopyData(conn, row, strlen(row)) of the row
\* loop: one line of text holding the columns of the atom
TextRow(atom) == [fmt |-> "text", line |-> atom]

\* one bulk_insert_atoms call in db.copies: the batch handed over, the rows
\* written to the stream, how the stream was closed, whether it committed,
\* and the payloads of the PQputCopyData calls in order
CopyRecord(atoms, rows, closed, failed, by) ==
    [batch |-> atoms, rows |-> rows, closed |-> closed,
     committed |-> failed = "none", failed |-> failed, by |-> by,
     format |-> CopyFormat,
     data |-> [k \in 1..Len(rows) |-> TextRow(rows[k])]]

\* the rows of the first n PQputCopyData calls of the row loop
RowsWritten(atoms, n) == SubSeq(atoms, 1, n)

\* PQputCopyEnd(conn, "error") after a failed row write
CloseAfterRowFailure == "error"

\* bulk_insert_atoms(conn, atoms) under outcome o; `by` names the calling
\* entry point.  Result: the store afterwards and the value returned.
bulk_insert_atoms(d, atoms, o, by) ==
    IF atoms = <<>> THEN [db |-> d, ret |-> 0]
    ELSE IF o.kind = "start_fail"
    THEN [db |-> [d EXCEPT !.copies = Append(@,
                    CopyRecord(atoms, <<>>, "unopened", "start", by))],
          ret |-> -1]
    ELSE IF o.kind = "row_fail"
    THEN [db |-> [d EXCEPT !.copies = Append(@,
                    CopyRecord(atoms, RowsWritten(atoms, o.at - 1),
                               CloseAfterRowFailure, "row", by))],
          ret |-> -1]
    ELSE IF o.kind = "end_fail"
    THEN [db |-> [d EXCEPT !.copies = Append(@,
                    CopyRecord(atoms, RowsWritten(atoms, Len(atoms)), "open", "end", by))],
          ret |-> -1]
    ELSE IF o.kind = "result_fail"
    THEN [db |-> [d EXCEPT !.copies = Append(@,
                    CopyRecord(atoms, RowsWritten(atoms, Len(atoms)), "end", "result", by))],
          ret |-> -1]
    ELSE [db |-> [d EXCEPT !.copies = Append(@,
                    CopyRecord(atoms, RowsWritten(atoms, Len(atoms)), "end", "none", by)),
                           !.table = @ \o RowsWritten(atoms, Len(atoms))],
          ret |-> Len(atoms)]

\* the mutant carries on after a failed batch
InsertFailed_Never(inserted) == FALSE

\* if (inserted < 0)
InsertFailed(inserted) == inserted < 0

\* the mutant puts the new record in front
PushBack_Front(batch, atom) == <<atom>> \o batch

\* batch.push_back(atom)
PushBack(batch, atom) == Append(batch, atom)

(***************************************************************************)
(* hart_seed_unicode.                                                      *)
(***************************************************************************)
\* the mutant skips 0xD801..0xDFFF only
IsSurrogate_OffByOne(cp) == cp.top = 0 /\ cp.low > 55296 /\ cp.low <= 57343

\* cp >= 0xD800 && cp <= 0xDFFF
IsSurrogate(cp) == cp.top = 0 /\ cp.low >= 55296 /\ cp.low <= 57343

UnicodeAtom(cp) ==
    [is_constant |-> TRUE, seed_value |-> cp, seed_type |-> SEED_UNICODE,
     atom_type |-> "codepoint", hash |-> compute_seed_hash(cp)]

\* progress_callback(phase, done, total, written, sparsity, user_data),
\* recorded when the callback pointer is not null; `flushed` notes how many
\* batches the call had flushed successfully when the callback was made
Callback(f, phase, done, total, written, sparsity) ==
    IF f.progress_callback
    THEN Append(f.callbacks, [phase |-> phase, done |-> done, total |-> total,
                              written |-> written, sparsity |-> sparsity,
                              flushed |-> f.flushed])
    ELSE f.callbacks

\* entry of hart_seed_unicode, up to the loop
UnicodeEnter(req) ==
    LET f == [fn |-> "unicode", phase |-> "loop",
              conn |-> req.conn,
              start_codepoint |-> req.start_codepoint,
              end_codepoint |-> req.end_codepoint,
              progress_callback |-> req.progress_callback,
              total_created |-> 0, batch |-> <<>>,
              total |-> U32Inc(U32Sub(req.end_codepoint, req.start_codepoint)),
              cp |-> req.start_codepoint,
              callbacks |-> <<>>, flushed |-> 0, ret |-> 0]
    IN  IF ~req.conn
        THEN [f EXCEPT !.phase = "returned", !.ret = HART_ERROR_DB_CONNECTION]
        ELSE f

\* one iteration of the codepoint loop
UnicodeStep ==
    /\ ing.phase = "loop" /\ ing.fn = "unicode"
    /\ U32Leq(ing.cp, ing.end_codepoint)
    /\ IF IsSurrogate(ing.cp)
       THEN /\ ing' = [ing EXCEPT !.cp = U32Inc(@)]
            /\ db' = db
       ELSE LET batch1 == PushBack(ing.batch, UnicodeAtom(ing.cp))
            IN  IF Len(batch1) >= COPY_BATCH_SIZE
                THEN \E o \in CopyOutcomes(db, batch1) :
                       LET r == bulk_insert_atoms(db, batch1, o, "unicode")
                       IN  /\ db' = r.db
                           /\ IF InsertFailed(r.ret)
                              THEN ing' = [ing EXCEPT !.batch = batch1,
                                                      !.phase = "returned",
                                                      !.ret = r.ret]
                              ELSE LET f == [ing EXCEPT !.batch = <<>>,
                                                        !.flushed = @ + 1,
                                                        !.total_created = @ + r.ret]
                                   IN  ing' = [f EXCEPT
                                         !.callbacks = Callback(f, "Unicode seeding",
                                             U32Sub(f.cp, f.start_codepoint), f.total,
                                             f.total_created, 0),
                                         !.cp = U32Inc(@)]
                ELSE /\ ing' = [ing EXCEPT !.batch = batch1, !.cp = U32Inc(@)]
                     /\ db' = db
    /\ UNCHANGED <<pending, hilbertVars, simdVars, hashVars>>

\* after the loop: the final batch, the "Complete" callback, the return
UnicodeFinish ==
    /\ ing.phase = "loop" /\ ing.fn = "unicode"
    /\ ~U32Leq(ing.cp, ing.end_codepoint)
    /\ \E o \in CopyOutcomes(db, ing.batch) :
         LET r == bulk_insert_atoms(db, ing.batch, o, "unicode")
         IN  /\ db' = r.db
             /\ IF InsertFailed(r.ret)
                THEN ing' = [ing EXCEPT !.phase = "returned", !.ret = r.ret]
                ELSE LET f == [ing EXCEPT !.total_created = @ + r.ret,
                                          !.flushed = IF ing.batch = <<>> THEN @ ELSE @ + 1]
                     IN  ing' = [f EXCEPT
                           !.callbacks = Callback(f, "Complete", f.total, f.total,
                                                  f.total_created, 0),
                           !.phase = "returned",
                           !.ret = f.total_created]
    /\ UNCHANGED <<pending, hilbertVars, simdVars, hashVars>>

(***************************************************************************)
(* hart_ingest_safetensor.  A float is its bit pattern, a uint32_t value   *)
(* [top, low]: top is the sign bit, low the exponent and mantissa.         *)
(***************************************************************************)
\* sizes of the buffers, in elements (chunk_size in the source)
CHUNK_SIZE == 2

\* a float pattern is a NaN when exponent = 255 and mantissa # 0
IsNaN(v) == v.low > 2139095040

\* std::abs(val) < actual_threshold on floats
AbsLess(val, threshold) ==
    /\ ~IsNaN(val) /\ ~IsNaN(threshold)
    /\ threshold.top = 0
    /\ val.low < threshold.low

\* the half -> single conversion of the F16 branch, h a uint16_t
F16ToF32(h) ==
    LET sign == h \div 32768
        exp == (h \div 1024) % 32
        mant == h % 1024
    IN  IF exp = 0 THEN [top |-> 0, low |-> 0]
        ELSE IF exp = 31
        THEN IF mant # 0 THEN [top |-> 0, low |-> 2143289344]
             ELSE [top |-> sign, low |-> 2139095040]
        ELSE [top |-> sign, low |-> (exp + (127 - 15)) * 8388608 + mant * 8192]

FloatAtom(bits) ==
    [is_constant |-> TRUE, seed_value |-> bits, seed_type |-> SEED_FLOAT_BITS,
     atom_type |-> "float32", hash |-> compute_seed_hash(bits)]

\* a std::vector<float>(n) or std::vector<uint16_t>(n): n zeroed elements
ZeroFloats(n) == [i \in 1..n |-> [top |-> 0, low |-> 0]]

\* parse_safetensor_header on a header of the given kind: "true", "false",
\* or "throws" when std::stoll meets a shape or offset that is not a number.
\* A descriptor without "dtype" is never found by the search loop: the
\* tensor is dropped and the parse succeeds.
parse_safetensor_header(header) ==
    CASE header = "short_len" -> "false"
      [] header = "short_json" -> "false"
      [] header = "bad_number" -> "throws"
      [] header = "no_dtype" -> "true"
      [] OTHER -> "true"

EmptyResult ==
    [tensor_count |-> 0, total_parameters |-> 0, total_values |-> 0,
     stored_values |-> 0, skipped_values |-> 0, sparsity_percent |-> <<0, 1>>,
     error_message |-> ""]

\* the mutant reports the share of the stored values
SparsityOf_OfStored(result) ==
    IF result.total_values > 0
    THEN <<100 * result.stored_values, result.total_values>>
    ELSE <<0, 1>>

\* 100.0 * skipped / total as the fraction <<numerator, denominator>>
SparsityOf(result) ==
    IF result.total_values > 0
    THEN <<100 * result.skipped_values, result.total_values>>
    ELSE <<0, 1>>

\* entry of hart_ingest_safetensor, up to the tensor loop
\* (target_sparsity_percent <= 0: actual_threshold = sparsity_threshold)
TensorEnter(req) ==
    LET f == [fn |-> "tensor", phase |-> "tensor",
              conn |-> req.conn, file_opens |-> req.file_opens,
              header |-> req.header,
              progress_callback |-> req.progress_callback,
              actual_threshold |-> req.sparsity_threshold,
              result |-> EmptyResult,
              tensors_processed |-> 0,
              batch |-> <<>>, float_atom_ids |-> {},
              info |-> [dtype |-> "", float_count |-> 0, readable |-> 0],
              chunk |-> <<>>, processed |-> 0, to_read |-> 0, i |-> 0, nread |-> 0,
              callbacks |-> <<>>, flushed |-> 0, ret |-> 0,
              max_elems |-> req.max_elems,
              declared |-> 0, past_eof |-> FALSE, storedLog |-> <<>>]
        parsed == parse_safetensor_header(req.header)
    IN  IF ~req.conn
        THEN [f EXCEPT !.phase = "returned", !.ret = HART_ERROR_INVALID_INPUT]
        ELSE IF ~req.file_opens
        THEN [f EXCEPT !.phase = "returned", !.ret = HART_ERROR_INVALID_INPUT,
                       !.result.error_message = "Cannot open file"]
        ELSE IF parsed = "throws"
        THEN [f EXCEPT !.phase = "threw"]
        ELSE IF parsed = "false"
        THEN [f EXCEPT !.phase = "returned", !.ret = HART_ERROR_INVALID_INPUT,
                       !.result.error_message = "Failed to parse SafeTensor header"]
        ELSE LET g == [f EXCEPT !.result.tensor_count = req.tensor_count]
             IN  [g EXCEPT !.callbacks = Callback(g, "Parsed header", 0,
                                                  g.result.tensor_count, 0, <<0, 1>>)]

(***************************************************************************)
(* The tensor loop.  The file is read once, front to back, so the          *)
(* descriptor of a tensor is drawn when the loop reaches it and the        *)
(* payload of a chunk when fread reads it.  info.float_count is the number *)
(* of elements the descriptor declares (data_offsets), info.readable the   *)
(* number the file really holds from that offset on (fewer when the        *)
(* declared range ends past the end of the file).                          *)
(***************************************************************************)
MaxTensors == 2

\* elements declared by all descriptors of one file together (max_elems of
\* a request)
MaxElems == 3

\* +0.0, 0.001, 1.0, -0.2 as float patterns
F32Samples == {[top |-> 0, low |-> 0], [top |-> 0, low |-> 981668463],
               [top |-> 0, low |-> 1065353216], [top |-> 1, low |-> 1045220557]}

\* -0.0, 1.0, -0.19995 as half patterns
F16Samples == {32768, 15360, 45670}

\* 0.0 and 0.01
Thresholds == {[top |-> 0, low |-> 0], [top |-> 0, low |-> 1008981770]}

\* for (auto& [tensor_name, info] : header.tensors): no tensor is left
TensorsLeft == ing.tensors_processed < ing.result.tensor_count

\* a tensor whose dtype is neither F32 nor F16
TensorSkip ==
    /\ ing.phase = "tensor" /\ TensorsLeft
    /\ ing' = [ing EXCEPT !.tensors_processed = @ + 1]
    /\ UNCHANGED <<db, pending, hilbertVars, simdVars, hashVars>>

\* an F32 or F16 tensor: total_parameters, fseek, byte_count, float_count,
\* the chunk vector
TensorOpen ==
    /\ ing.phase = "tensor" /\ TensorsLeft
    /\ \E dtype \in {"F32", "F16"}, n \in 0..(ing.max_elems - ing.declared) :
         \E readable \in 0..n :
           ing' = [ing EXCEPT
                     !.info = [dtype |-> dtype, float_count |-> n, readable |-> readable],
                     !.result.total_parameters = @ + n,
                     !.declared = @ + n,
                     !.past_eof = @ \/ readable < n,
                     !.chunk = ZeroFloats(CHUNK_SIZE),
                     !.processed = 0,
                     !.phase = "chunk"]
    /\ UNCHANGED <<db, pending, hilbertVars, simdVars, hashVars>>

\* chunk after fread of `data` (the elements the file still holds, at most
\* to_read of them); the F16 branch converts all to_read elements of a
\* zeroed f16_buf
ChunkAfterRead(chunk, dtype, data, to_read) ==
    [k \in 1..Len(chunk) |->
        IF dtype = "F32"
        THEN IF k <= Len(data) THEN data[k] ELSE chunk[k]
        ELSE IF k <= Len(data) THEN F16ToF32(data[k])
             ELSE IF k <= to_read THEN F16ToF32(0)
             ELSE chunk[k]]

\* while (processed < float_count): to_read, fread
TensorReadChunk ==
    /\ ing.phase = "chunk"
    /\ ing.processed < ing.info.float_count
    /\ LET rest == ing.info.float_count - ing.processed
           to_read == IF CHUNK_SIZE < rest THEN CHUNK_SIZE ELSE rest
           left == ing.info.readable - ing.processed
           nread == IF left < 0 THEN 0 ELSE IF left < to_read THEN left ELSE to_read
           samples == IF ing.info.dtype = "F32" THEN F32Samples ELSE F16Samples
       IN  \E data \in [1..nread -> samples] :
             ing' = [ing EXCEPT
                       !.chunk = ChunkAfterRead(ing.chunk, ing.info.dtype, data, to_read),
                       !.to_read = to_read,
                       !.nread = nread,
                       !.i = 0,
                       !.phase = "elem"]
    /\ UNCHANGED <<db, pending, hilbertVars, simdVars, hashVars>>

\* the mutant never finds the pattern
AlreadySeen_Never(float_atom_ids, bits) == FALSE

\* float_atom_ids.find(bits) != float_atom_ids.end()
AlreadySeen(float_atom_ids, bits) == bits \in float_atom_ids

\* frame after element i of the chunk, when no batch is flushed
AfterElement(f) ==
    IF f.i + 1 < f.to_read
    THEN [f EXCEPT !.i = @ + 1]
    ELSE [f EXCEPT !.i = @ + 1, !.processed = @ + f.to_read, !.phase = "chunk"]

\* the body of the element loop for chunk[i]
TensorElement ==
    /\ ing.phase = "elem"
    /\ ing.i < ing.to_read
    /\ LET val == ing.chunk[ing.i + 1]
           counted == [ing EXCEPT !.result.total_values = @ + 1]
       IN  IF AbsLess(val, ing.actual_threshold)
           THEN /\ ing' = AfterElement([counted EXCEPT !.result.skipped_values = @ + 1])
                /\ db' = db
           ELSE LET stored == [counted EXCEPT
                                 !.result.stored_values = @ + 1,
                                 !.storedLog = Append(@, [bits |-> val,
                                                          read |-> ing.i < ing.nread])]
                IN  IF AlreadySeen(ing.float_atom_ids, val)
                    THEN /\ ing' = AfterElement(stored)
                         /\ db' = db
                    ELSE LET pushed == [stored EXCEPT
                                          !.batch = PushBack(@, FloatAtom(val)),
                                          !.float_atom_ids = @ \cup {val}]
                         IN  IF Len(pushed.batch) >= COPY_BATCH_SIZE
                             THEN \E o \in CopyOutcomes(db, pushed.batch) :
                                    LET r == bulk_insert_atoms(db, pushed.batch, o, "tensor")
                                    IN  /\ db' = r.db
                                        /\ IF InsertFailed(r.ret)
                                           THEN ing' = [pushed EXCEPT
                                                  !.result.error_message = "Bulk insert failed",
                                                  !.phase = "returned",
                                                  !.ret = HART_ERROR_DB_QUERY]
                                           ELSE ing' = AfterElement([pushed EXCEPT
                                                         !.batch = <<>>,
                                                         !.flushed = @ + 1])
                             ELSE /\ ing' = AfterElement(pushed)
                                  /\ db' = db
    /\ UNCHANGED <<pending, hilbertVars, simdVars, hashVars>>

\* the while loop ends: tensors_processed++, the per-tensor callback
TensorClose ==
    /\ ing.phase = "chunk"
    /\ ~(ing.processed < ing.info.float_count)
    /\ LET f == [ing EXCEPT !.tensors_processed = @ + 1]
       IN  ing' = [f EXCEPT
                     !.callbacks = Callback(f, "tensor_name", f.tensors_processed,
                                            f.result.tensor_count,
                                            f.result.stored_values, SparsityOf(f.result)),
                     !.phase = "tensor"]
    /\ UNCHANGED <<db, pending, hilbertVars, simdVars, hashVars>>

\* after the tensor loop: the final batch, the statistics, "Complete"
TensorFinish ==
    /\ ing.phase = "tensor" /\ ing.fn = "tensor" /\ ~TensorsLeft
    /\ \E o \in CopyOutcomes(db, ing.batch) :
         LET r == bulk_insert_atoms(db, ing.batch, o, "tensor")
         IN  /\ db' = r.db
             /\ IF InsertFailed(r.ret)
                THEN ing' = [ing EXCEPT
                       !.result.error_message = "Final bulk insert failed",
                       !.phase = "returned",
                       !.ret = HART_ERROR_DB_QUERY]
                ELSE LET f == [ing EXCEPT
                                 !.result.sparsity_percent = SparsityOf(ing.result),
                                 !.flushed = IF ing.batch = <<>> THEN @ ELSE @ + 1]
                     IN  ing' = [f EXCEPT
                           !.callbacks = Callback(f, "Complete", f.result.tensor_count,
                                                  f.result.tensor_count,
                                                  f.result.stored_values,
                                                  f.result.sparsity_percent),
                           !.phase = "returned",
                           !.ret = HART_OK]
    /\ UNCHANGED <<pending, hilbertVars, simdVars, hashVars>>

(***************************************************************************)
(* Calls made on one connection.                                           *)
(***************************************************************************)
MaxSpan == 3

\* first codepoints of the seeded ranges: 0, just below and just inside the
\* end of the surrogate block, the last codepoints
UnicodeStarts == {0, 55294, 57342, 1114109}

\* the short ranges, one range across the whole surrogate block, the ASCII
\* range, and an empty range (start > end)
UnicodeRanges ==
    { <<st, st + n - 1>> : st \in UnicodeStarts, n \in 1..MaxSpan }
    \cup { <<55295, 57344>>, <<0, 127>>, <<3, 2>> }

UnicodeRequests ==
    { [fn |-> "unicode", conn |-> c, start_codepoint |-> U32(r[1]),
       end_codepoint |-> U32(r[2]), progress_callback |-> cb] :
        c \in BOOLEAN, r \in { x \in UnicodeRanges : x[2] <= 1114111 }, cb \in BOOLEAN }

HeaderKinds == {"ok", "short_len", "short_json", "bad_number", "no_dtype"}

TensorRequests ==
    { [fn |-> "tensor", conn |-> c, file_opens |-> fo, header |-> h,
       tensor_count |-> n, sparsity_threshold |-> th, progress_callback |-> cb,
       max_elems |-> MaxElems] :
        c \in BOOLEAN, fo \in BOOLEAN, h \in HeaderKinds, n \in 0..MaxTensors,
        th \in Thresholds, cb \in BOOLEAN }

NoCall == [fn |-> "none", phase |-> "returned"]

\* the caller makes the next call once the previous one is over
CallBegin ==
    /\ ing.phase \in {"returned", "threw"}
    /\ pending # <<>>
    /\ ing' = IF Head(pending).fn = "unicode"
              THEN UnicodeEnter(Head(pending))
              ELSE TensorEnter(Head(pending))
    /\ pending' = Tail(pending)
    /\ UNCHANGED <<db, hilbertVars, simdVars, hashVars>>

\* one ingestion call on a fresh connection
Init ==
    /\ ing = NoCall
    /\ \E faulty \in BOOLEAN : db = NewDb(faulty)
    /\ \E req \in UnicodeRequests \cup TensorRequests : pending = <<req>>
    /\ hx = Idle /\ simd = Idle /\ hc = Idle

Next ==
    \/ CallBegin
    \/ UnicodeStep
    \/ UnicodeFinish
    \/ TensorSkip
    \/ TensorOpen
    \/ TensorReadChunk
    \/ TensorElement
    \/ TensorClose
    \/ TensorFinish

Spec == Init /\ [][Next]_vars

(***************************************************************************)
(* Two calls on one connection that accepts every batch: a Unicode range   *)
(* is seeded, then a tensor file is ingested.                              *)
(***************************************************************************)
SessionUnicodeRequests ==
    { r \in UnicodeRequests :
        /\ r.conn /\ ~r.progress_callback
        /\ r.start_codepoint = U32(0) /\ r.end_codepoint.low < MaxSpan }

SessionTensorRequests ==
    { r \in TensorRequests :
        r.conn /\ r.file_opens /\ r.header = "ok" /\ ~r.progress_callback }

SessionInit ==
    /\ ing = NoCall
    /\ db = NewDb(FALSE)
    /\ \E u \in SessionUnicodeRequests, t \in SessionTensorRequests : pending = <<u, t>>
    /\ hx = Idle /\ simd = Idle /\ hc = Idle

SpecSession == SessionInit /\ [][Next]_vars

(***************************************************************************)
(* What a call has handed to the store.                                    *)
(***************************************************************************)
RECURSIVE ConcatBatches(_)
\* the batches of the bulk_insert_atoms calls in `copies`, one after another
ConcatBatches(copies) ==
    IF copies = <<>> THEN <<>>
    ELSE copies[1].batch \o ConcatBatches(Tail(copies))

CopiesBy(by) == SelectSeq(db.copies, LAMBDA c : c.by = by)

\* every record the entry point `by` has submitted so far
Submitted(by) == ConcatBatches(CopiesBy(by))

\* the records of the running call: those submitted and those still waiting
\* in `batch` (after the return every record of `batch` has been submitted)
Placed ==
    Submitted(ing.fn) \o (IF ing.phase \in {"returned", "threw"} THEN <<>> ELSE ing.batch)

SeedKey(atom) == <<atom.seed_type, atom.seed_value>>

RECURSIVE FirstOccurrences(_)
\* s without the elements that repeat an earlier one
FirstOccurrences(s) ==
    IF s = <<>> THEN <<>>
    ELSE LET front == SubSeq(s, 1, Len(s) - 1)
             rest == FirstOccurrences(front)
         IN  IF \E k \in 1..Len(front) : front[k] = s[Len(s)]
             THEN rest
             ELSE Append(rest, s[Len(s)])

\* C3: during one hart_ingest_safetensor call no two records placed in any
\* batch have the same (seed_type, seed_value) pair, whether the repeated
\* value comes from the same chunk, another chunk, another tensor or after a
\* batch was flushed.
C3_NoDuplicateSeedInCall ==
    ing.fn = "tensor" =>
        \A i, j \in 1..Len(Placed) :
            i # j => SeedKey(Placed[i]) # SeedKey(Placed[j])

\* a call that stored +0.0 from an F32 tensor, flushed a batch, then met the
\* same pattern again, read from an F16 tensor, and returned
C3_Witness ==
    /\ ing.fn = "tensor" /\ ing.phase = "returned" /\ ing.ret = HART_OK
    /\ Len(ing.storedLog) = 3
    /\ ing.storedLog[1].bits = ing.storedLog[3].bits
    /\ ing.storedLog[3].read
    /\ ing.info.dtype = "F16" /\ ing.tensors_processed = 2
    /\ Len(db.copies) = 1 /\ Len(db.table) = 2

\* C4: records go to the store in the order the input is traversed:
\* ascending codepoints for hart_seed_unicode, first occurrence in file and
\* element order for hart_ingest_safetensor; a stream carries the rows of
\* its batch in batch order and the store holds the committed batches in
\* submission order.
C4_TraversalOrder ==
    /\ ing.fn = "unicode" =>
         \A k \in 1..(Len(Placed) - 1) :
            /\ U32Leq(Placed[k].seed_value, Placed[k + 1].seed_value)
            /\ Placed[k].seed_value # Placed[k + 1].seed_value
    /\ ing.fn = "tensor" =>
         [k \in 1..Len(Placed) |-> Placed[k].seed_value]
            = FirstOccurrences([k \in 1..Len(ing.storedLog) |-> ing.storedLog[k].bits])
    /\ \A k \in 1..Len(db.copies) :
         /\ Len(db.copies[k].rows) <= Len(db.copies[k].batch)
         /\ db.copies[k].rows = SubSeq(db.copies[k].batch, 1, Len(db.copies[k].rows))
    /\ db.table = ConcatBatches(SelectSeq(db.copies, LAMBDA c : c.committed))

\* a tensor call that committed two batches holding three distinct patterns
C4_Witness ==
    /\ ing.fn = "tensor" /\ ing.phase = "returned" /\ ing.ret = HART_OK
    /\ Len(db.copies) = 2
    /\ Len(db.table) = 3
    /\ Len(ing.storedLog) = 3

\* the number of codepoints of [a, b] outside 0xD800..0xDFFF
NonSurrogateCount(a, b) ==
    LET lo == IF a > 55296 THEN a ELSE 55296
        hi == IF b < 57343 THEN b ELSE 57343
    IN  (b - a + 1) - (IF hi >= lo THEN hi - lo + 1 ELSE 0)

\* C5: with a non-null connection, start <= end <= 0x10FFFF and a store that
\* accepts every batch, hart_seed_unicode returns the number of records it
\* emitted, and these are exactly one record, of seed type SEED_UNICODE and
\* seed value the codepoint, per codepoint of [start, end] outside
\* 0xD800..0xDFFF (128 for [0, 127]).
C5_UnicodeSeedingComplete ==
    ( /\ ing.fn = "unicode" /\ ing.phase = "returned" /\ ing.conn
      /\ U32Leq(ing.start_codepoint, ing.end_codepoint)
      /\ U32Leq(ing.end_codepoint, U32(1114111))
      /\ \A k \in 1..Len(db.copies) : db.copies[k].committed )
    => LET n == NonSurrogateCount(ing.start_codepoint.low, ing.end_codepoint.low)
           emitted == Submitted("unicode")
       IN  /\ ing.ret = n
           /\ Len(emitted) = n
           /\ db.table = emitted
           /\ ing.start_codepoint = U32(0) /\ ing.end_codepoint = U32(127) => ing.ret = 128
           /\ \A k \in 1..Len(emitted) :
                /\ emitted[k].seed_type = SEED_UNICODE
                /\ emitted[k].seed_value.top = 0
                /\ emitted[k].seed_value.low >= ing.start_codepoint.low
                /\ emitted[k].seed_value.low <= ing.end_codepoint.low
                /\ ~(emitted[k].seed_value.low >= 55296 /\ emitted[k].seed_value.low <= 57343)
                /\ \A m \in 1..(k - 1) : emitted[m].seed_value.low < emitted[k].seed_value.low

\* the range U+D7FF..U+E000 seeded: the two codepoints around the block
C5_Witness ==
    /\ ing.fn = "unicode" /\ ing.phase = "returned"
    /\ ing.start_codepoint = U32(55295) /\ ing.end_codepoint = U32(57344)
    /\ ing.ret = 2
    /\ Len(db.table) = 2

\* C6: when the submission of a batch fails, the call submits no further
\* batch and does not retry, returns a negative value (for
\* hart_ingest_safetensor HART_ERROR_DB_QUERY with a non-empty
\* error_message), and the batches committed before stay in the store.
C6_AbortOnWriteFailure ==
    \A k \in 1..Len(db.copies) :
        ~db.copies[k].committed =>
            /\ k = Len(db.copies)
            /\ ing.phase = "returned"
            /\ ing.ret < 0
            /\ ing.fn = "tensor" =>
                 /\ ing.ret = HART_ERROR_DB_QUERY
                 /\ ing.result.error_message # ""
            /\ db.table = ConcatBatches(SubSeq(db.copies, 1, k - 1))

\* a Unicode call whose second batch failed on a row write after the first
\* was committed, with codepoints of the range still to come
C6_Witness ==
    /\ ing.fn = "unicode" /\ ing.phase = "returned" /\ ing.ret < 0
    /\ Len(db.copies) = 2
    /\ db.copies[1].committed /\ db.copies[2].failed = "row"
    /\ Len(db.table) = COPY_BATCH_SIZE
    /\ U32Leq(U32Inc(ing.cp), ing.end_codepoint)

\* C7: whenever a write call of a batch fails (a row write, the end-of-copy
\* call, or a command result that is not OK) the open stream is closed with
\* an explicit error marker before bulk_insert_atoms returns.
C7_ErrorMarkerOnAnyFailure ==
    \A k \in 1..Len(db.copies) :
        db.copies[k].failed \in {"row", "end", "result"} =>
            db.copies[k].closed = "error"

\* C8: if the header length cannot be read in full, or the declared range of
\* a tensor ends past the end of the file, or a descriptor is malformed,
\* hart_ingest_safetensor returns a value other than HART_OK with an error
\* message, and no record is ever made from data that was not read.
C8_ReaderFailsCleanly ==
    /\ ing.fn = "tensor" =>
         \A k \in 1..Len(ing.storedLog) :
            ing.storedLog[k].read
            \/ \E m \in 1..(k - 1) : ing.storedLog[m].bits = ing.storedLog[k].bits
    /\ ( /\ ing.fn = "tensor" /\ ing.conn /\ ing.file_opens
         /\ ing.phase \in {"returned", "threw"}
         /\ \/ ing.header \in {"short_len", "bad_number", "no_dtype"}
            \/ ing.past_eof )
       => /\ ing.phase = "returned"
          /\ ing.ret # HART_OK
          /\ ing.result.error_message # ""

\* every record handed to the store on this connection, by either entry
\* point, and those waiting in the batch of the running call
AllRecords ==
    ConcatBatches(db.copies)
        \o (IF ing.phase \in {"returned", "threw"} THEN <<>> ELSE ing.batch)

\* C9: two records emitted by hart_seed_unicode and hart_ingest_safetensor
\* whose (seed_type, seed_value) pairs differ are fed to the hasher as
\* different byte sequences and get different digests; records with equal
\* pairs get equal digests.
C9_DigestSeparatesSeeds ==
    \A i, j \in 1..Len(AllRecords) :
        /\ SeedKey(AllRecords[i]) # SeedKey(AllRecords[j])
             => AllRecords[i].hash # AllRecords[j].hash
        /\ SeedKey(AllRecords[i]) = SeedKey(AllRecords[j])
             => AllRecords[i].hash = AllRecords[j].hash

(***************************************************************************)
(* Seed digests on hosts of either byte order.  The 64-bit value_bits of   *)
(* hash_seed is kept as its eight bytes, least significant first.          *)
(***************************************************************************)
Reverse(s) == [i \in 1..Len(s) |-> s[Len(s) + 1 - i]]

\* the bytes of an object in memory, given its bytes least significant first
MemBytes(lsbFirst, host) == IF host = "little" THEN lsbFirst ELSE Reverse(lsbFirst)

\* the bytes hash_seed feeds: &seed->type, sizeof(SeedType), then
\* &value_bits, sizeof(uint64_t)
hash_seed_feed(seed, host) ==
    MemBytes(<<seed.type, 0, 0, 0>>, host) \o MemBytes(seed.value_bits, host)

hash_seed(seed, host) == Blake3(hash_seed_feed(seed, host))

\* the uint32_t a seed value is passed as to compute_seed_hash
SeedAsU32(seed) ==
    [top |-> seed.value_bits[4] \div 128,
     low |-> seed.value_bits[1] + 256 * seed.value_bits[2]
             + 65536 * seed.value_bits[3] + 16777216 * (seed.value_bits[4] % 128)]

\* codepoints U+0000, U+0041, U+10FFFF; integers 0, 1, -1, 2^32; the
\* doubles 0.0 and 1.0; float patterns of 0.001 and -0.2
SampleSeeds ==
    { [type |-> SEED_UNICODE, value_bits |-> v] :
        v \in { <<0, 0, 0, 0, 0, 0, 0, 0>>, <<65, 0, 0, 0, 0, 0, 0, 0>>,
                <<255, 255, 16, 0, 0, 0, 0, 0>> } }
    \cup { [type |-> 1, value_bits |-> v] :
        v \in { <<0, 0, 0, 0, 0, 0, 0, 0>>, <<1, 0, 0, 0, 0, 0, 0, 0>>,
                <<255, 255, 255, 255, 255, 255, 255, 255>>,
                <<0, 0, 0, 0, 1, 0, 0, 0>> } }
    \cup { [type |-> SEED_FLOAT_BITS, value_bits |-> v] :
        v \in { <<0, 0, 0, 0, 0, 0, 0, 0>>, <<0, 0, 0, 0, 0, 0, 240, 63>>,
                <<111, 18, 131, 58, 0, 0, 0, 0>>, <<205, 204, 76, 190, 0, 0, 0, 0>> } }

NoFeed == <<>>

\* one seed; no digest computed yet
SeedInit ==
    /\ \E seed \in SampleSeeds :
         hc = [phase |-> "seed", seed |-> seed,
               fed |-> [fn \in {"hash_seed", "compute_seed_hash"} |->
                          [host \in Hosts |-> NoFeed]]]
    /\ hx = Idle /\ simd = Idle
    /\ ing = Idle /\ db = Idle /\ pending = <<>>

\* hash_seed(&seed) on one host
HashSeedCall ==
    /\ hc.phase = "seed"
    /\ \E host \in Hosts :
         /\ hc.fed["hash_seed"][host] = NoFeed
         /\ hc' = [hc EXCEPT !.fed["hash_seed"][host] = hash_seed_feed(hc.seed, host)]
    /\ UNCHANGED <<hilbertVars, simdVars, ingestVars>>

\* compute_seed_hash(seed) on one host, for a value that fits uint32_t
ComputeSeedHashCall ==
    /\ hc.phase = "seed"
    /\ SubSeq(hc.seed.value_bits, 5, 8) = <<0, 0, 0, 0>>
    /\ \E host \in Hosts :
         /\ hc.fed["compute_seed_hash"][host] = NoFeed
         /\ hc' = [hc EXCEPT !.fed["compute_seed_hash"][host] =
                                compute_seed_hash_bytes(SeedAsU32(hc.seed), host)]
    /\ UNCHANGED <<hilbertVars, simdVars, ingestVars>>

SeedNext == HashSeedCall \/ ComputeSeedHashCall

SpecSeed == SeedInit /\ [][SeedNext]_vars

\* C11: the bytes hash_seed and compute_seed_hash feed for a seed are the
\* discriminator tag followed by the value, both least significant byte
\* first, the same on a little-endian and on a big-endian host.
C11_HostIndependentFeed ==
    hc.phase = "seed" =>
        \A fn \in {"hash_seed", "compute_seed_hash"}, host \in Hosts :
            hc.fed[fn][host] # NoFeed =>
                /\ SubSeq(hc.fed[fn][host], 1, 4) = <<hc.seed.type, 0, 0, 0>>
                /\ \A k \in 5..Len(hc.fed[fn][host]) :
                     hc.fed[fn][host][k] = hc.seed.value_bits[k - 4]
                /\ \A other \in Hosts :
                     hc.fed[fn][other] # NoFeed => hc.fed[fn][other] = hc.fed[fn][host]

(***************************************************************************)
(* The binary COPY helpers begin_copy, write_atom_row and end_copy.  A     *)
(* payload is the byte sequence of one PQputCopyData call.  int64_t fields *)
(* are drawn from the int32_t range.                                       *)
(***************************************************************************)
\* write_int32_be: most significant byte first
write_int32_be(val) == Int32Bytes(val, "big")

\* write_int64_be, for val within the int32_t range
write_int64_be(val) ==
    (IF val < 0 THEN <<255, 255, 255, 255>> ELSE <<0, 0, 0, 0>>) \o Int32Bytes(val, "big")

\* "PGCOPY\n\377\r\n\0": the first 11 bytes of header[]
CopySignature == <<80, 71, 67, 79, 80, 89, 10, 255, 13, 10, 0>>

\* hdr_buf of begin_copy: signature, flags, header_ext_len
begin_copy_header == CopySignature \o write_int32_be(0) \o write_int32_be(0)

\* trailer[2] of end_copy
end_copy_trailer == <<255, 255>>

\* point_to_wkt on the sample points (1,0,0,0) and (0.5,0.5,0.5,0.5)
point_to_wkt(pt) ==
    IF pt = "unit_x"
    THEN <<80, 79, 73, 78, 84, 32, 90, 77, 32, 40, 49, 32, 48, 32, 48, 32, 48, 41>>
    ELSE <<80, 79, 73, 78, 84, 32, 90, 77, 32, 40, 48, 46, 53, 32, 48, 46, 53, 32, 48, 46, 53, 32, 48, 46, 53, 41>>

\* the characters of atom_type
AtomTypeChars(atom_type) ==
    IF atom_type = "codepoint"
    THEN <<99, 111, 100, 101, 112, 111, 105, 110, 116>>
    ELSE <<102, 108, 111, 97, 116, 51, 50>>

\* the bytes of one field: its big-endian length, then the payload
Field(payload) == write_int32_be(Len(payload)) \o payload

\* the NULL marker of a nullable field
NullField == write_int32_be(-1)

\* the byte vector `row` built by write_atom_row
write_atom_row(atom) ==
    <<0, 8>>
    \o Field(write_int64_be(atom.hilbert_high))
    \o Field(write_int64_be(atom.hilbert_low))
    \o Field(point_to_wkt(atom.pt))
    \o Field(<<IF atom.is_constant THEN 1 ELSE 0>>)
    \o (IF atom.is_constant THEN Field(write_int64_be(atom.seed_value)) ELSE NullField)
    \o (IF atom.is_constant THEN Field(write_int32_be(atom.seed_type)) ELSE NullField)
    \o Field(atom.hash)
    \o Field(AtomTypeChars(atom.atom_type))

\* rows handed to the helpers in one stream
MaxRows == 2

EncoderAtoms ==
    { [hilbert_high |-> 0, hilbert_low |-> hl, pt |-> pt, hash |-> h,
       is_constant |-> TRUE, seed_value |-> 65, seed_type |-> SEED_UNICODE,
       atom_type |-> "codepoint"] :
        hl \in {7, -2}, pt \in {"unit_x", "half"}, h \in SampleDigests }
    \cup
    { [hilbert_high |-> 0, hilbert_low |-> 7, pt |-> "half", hash |-> h,
       is_constant |-> c, seed_value |-> 981668463, seed_type |-> SEED_FLOAT_BITS,
       atom_type |-> "float32"] :
        h \in SampleDigests, c \in BOOLEAN }

EncoderInit ==
    /\ \E n \in 0..MaxRows : \E atoms \in [1..n -> EncoderAtoms] : pending = atoms
    /\ db = [phase |-> "encoder", status |-> "idle", data |-> <<>>]
    /\ ing = Idle /\ hx = Idle /\ simd = Idle /\ hc = Idle

\* begin_copy: PQexec of the COPY command, then the header
BeginCopy ==
    /\ db.phase = "encoder" /\ db.status = "idle"
    /\ \E started \in BOOLEAN, sent \in BOOLEAN :
         db' = IF ~started THEN [db EXCEPT !.status = "failed"]
               ELSE IF ~sent THEN [db EXCEPT !.status = "failed"]
               ELSE [db EXCEPT !.status = "copy_in",
                               !.data = Append(@, [part |-> "header",
                                                   bytes |-> begin_copy_header])]
    /\ UNCHANGED <<ing, pending, hilbertVars, simdVars, hashVars>>

\* write_atom_row for the next atom
WriteAtomRow ==
    /\ db.phase = "encoder" /\ db.status = "copy_in"
    /\ pending # <<>>
    /\ \E sent \in BOOLEAN :
         /\ db' = IF ~sent THEN [db EXCEPT !.status = "failed"]
                  ELSE [db EXCEPT !.data = Append(@, [part |-> "row",
                                                      bytes |-> write_atom_row(Head(pending))])]
         /\ pending' = IF sent THEN Tail(pending) ELSE pending
    /\ UNCHANGED <<ing, hilbertVars, simdVars, hashVars>>

\* end_copy: the trailer, PQputCopyEnd, the command result
EndCopy ==
    /\ db.phase = "encoder" /\ db.status = "copy_in"
    /\ pending = <<>>
    /\ \E sent \in BOOLEAN, ended \in BOOLEAN, ok \in BOOLEAN :
         db' = IF ~sent THEN [db EXCEPT !.status = "failed"]
               ELSE [db EXCEPT !.status = IF ended /\ ok THEN "ended" ELSE "failed",
                               !.data = Append(@, [part |-> "trailer",
                                                   bytes |-> end_copy_trailer])]
    /\ UNCHANGED <<ing, pending, hilbertVars, simdVars, hashVars>>

EncoderNext == BeginCopy \/ WriteAtomRow \/ EndCopy

SpecEncoder == EncoderInit /\ [][EncoderNext]_vars

\* C12: every batch hart_seed_unicode and hart_ingest_safetensor send to
\* the store is one binary stream: first the 19-byte signature block
\* (11-byte literal, flags 0, header-extension length 0), then the rows,
\* and last the 2-byte trailer 0xFFFF, written once.
C12_BinaryFraming ==
    \A k \in 1..Len(db.copies) :
        db.copies[k].committed =>
            LET d == db.copies[k].data
            IN  /\ db.copies[k].format = "binary"
                /\ Len(d) = Len(db.copies[k].rows) + 2
                /\ \A j \in 1..Len(d) : d[j].fmt = "binary"
                /\ (\A j \in 1..Len(d) : d[j].fmt = "binary") =>
                     /\ d[1].bytes = CopySignature \o <<0, 0, 0, 0>> \o <<0, 0, 0, 0>>
                     /\ \A j \in 1..Len(d) : d[j].bytes = <<255, 255>> <=> j = Len(d)

\* the bytes from position `from` on read as a big-endian 4-byte length
LengthAt(bytes, from) ==
    ((bytes[from] * 256 + bytes[from + 1]) * 256 + bytes[from + 2]) * 256 + bytes[from + 3]

\* C13: every row of the binary encoder is a 2-byte field count of 6 and
\* six fields in the order seed_value (8 bytes), seed_type (4), digest (32),
\* hilbert_high (8), hilbert_low (8), geom (41), each after its 4-byte
\* big-endian length.
C13_RowLayout ==
    db.phase = "encoder" =>
        \A k \in 1..Len(db.data) :
            db.data[k].part = "row" =>
                LET row == db.data[k].bytes
                IN  /\ SubSeq(row, 1, 2) = <<0, 6>>
                    /\ Len(row) = 2 + 6 * 4 + 8 + 4 + 32 + 8 + 8 + 41
                    /\ Len(row) = 127 =>
                         /\ LengthAt(row, 3) = 8
                         /\ LengthAt(row, 15) = 4
                         /\ LengthAt(row, 23) = 32
                         /\ LengthAt(row, 59) = 8
                         /\ LengthAt(row, 71) = 8
                         /\ LengthAt(row, 83) = 41

(***************************************************************************)
(* One call on a connection that accepts every batch, with or without a    *)
(* progress callback; tensor files may declare ProgressElems elements.     *)
(***************************************************************************)
ProgressElems == 4

ProgressRequests ==
    { r \in UnicodeRequests : r.conn /\ r.start_codepoint = U32(0) /\ r.end_codepoint.low < 128 }
    \cup { [r EXCEPT !.max_elems = ProgressElems] :
             r \in { t \in TensorRequests :
                       /\ t.conn /\ t.file_opens /\ t.header = "ok"
                       /\ t.tensor_count = 1 /\ t.sparsity_threshold = U32(0) } }

ProgressInit ==
    /\ ing = NoCall
    /\ db = NewDb(FALSE)
    /\ \E req \in ProgressRequests : pending = <<req>>
    /\ hx = Idle /\ simd = Idle /\ hc = Idle

SpecProgress == ProgressInit /\ [][Next]_vars

\* C14: with a non-null callback, every successfully flushed batch of
\* hart_seed_unicode and hart_ingest_safetensor is followed by a progress
\* callback before the next batch is submitted; callbacks are made when the
\* header is parsed and when all work is complete; with a null callback
\* there is no invocation.
C14_CallbackAfterEveryFlush ==
    ing.fn \in {"unicode", "tensor"} =>
        /\ ~ing.progress_callback => ing.callbacks = <<>>
        /\ ing.progress_callback /\ ing.conn =>
             /\ \A j \in 1..ing.flushed :
                  ( \/ j < Len(CopiesBy(ing.fn))
                    \/ ing.phase = "returned" /\ ing.ret >= 0 )
                  => \E k \in 1..Len(ing.callbacks) : ing.callbacks[k].flushed = j
             /\ ing.phase = "returned" /\ ing.ret >= 0 /\ ing.callbacks # <<>> =>
                  ing.callbacks[Len(ing.callbacks)].phase = "Complete"
             /\ ing.fn = "tensor" /\ ing.result.tensor_count > 0 =>
                  ing.callbacks[1].phase = "Parsed header"

(***************************************************************************)
(* The same call made twice on a store that enforces the unique            *)
(* constraint on content_hash.                                             *)
(***************************************************************************)
RerunRequests == SessionUnicodeRequests \cup SessionTensorRequests

RerunInit ==
    /\ ing = NoCall
    /\ db = UniqueDb
    /\ \E req \in RerunRequests : pending = <<req, req>>
    /\ hx = Idle /\ simd = Idle /\ hc = Idle

SpecRerun == RerunInit /\ [][Next]_vars

\* every record the entry point has submitted, in either run, is in the table
SubmittedAllHeld ==
    \A i \in 1..Len(Submitted(ing.fn)) :
        \E t \in 1..Len(db.table) : SeedKey(db.table[t]) = SeedKey(Submitted(ing.fn)[i])

\* C15: a second run of the same ingestion against a store that holds the
\* records of the first run and enforces its unique constraint completes
\* without error and leaves the set of stored records unchanged.
C15_SafeRerun ==
    ( /\ pending = <<>> /\ ing.fn \in {"unicode", "tensor"}
      /\ ing.phase = "returned"
      /\ db.table # <<>>
      /\ SubmittedAllHeld )
    => /\ ing.ret >= 0
       /\ \A k \in 1..Len(db.copies) : db.copies[k].failed = "none"
       /\ \A i, j \in 1..Len(db.table) :
            i # j => SeedKey(db.table[i]) # SeedKey(db.table[j])

(***************************************************************************)
(* hart_batch_lookup_atoms.  Text is a sequence of character codes.  The   *)
(* store answers a query in text format: a bytea value is written as the   *)
(* two characters \x followed by two hex digits per byte, a bigint in      *)
(* decimal.  Stored rows are [id, hash].                                   *)
(***************************************************************************)
\* batch_size of the source is 1000
LOOKUP_BATCH_SIZE == 2

\* the character of one hex digit, as "%02x" prints it
HexChar(d) == IF d < 10 THEN 48 + d ELSE 87 + d

\* sprintf(hex + j * 2, "%02x", bytes[j]) for all j
ToHexChars(bytes) ==
    [k \in 1..(2 * Len(bytes)) |->
        IF k % 2 = 1 THEN HexChar(bytes[(k + 1) \div 2] \div 16)
        ELSE HexChar(bytes[k \div 2] % 16)]

\* the value of a hex digit character, -1 for any other character
HexVal(c) ==
    IF c >= 48 /\ c <= 57 THEN c - 48
    ELSE IF c >= 97 /\ c <= 102 THEN c - 87
    ELSE IF c >= 65 /\ c <= 70 THEN c - 55
    ELSE -1

\* sscanf(p, "%2hhx", &byte) on the characters c1 c2 at p: the byte
\* afterwards, `old` when nothing is converted
Sscanf2hhx(c1, c2, old) ==
    IF HexVal(c1) < 0 THEN old
    ELSE IF HexVal(c2) < 0 THEN HexVal(c1)
    ELSE 16 * HexVal(c1) + HexVal(c2)

\* the text the store returns for a bytea column (bytea_output = hex)
ByteaOut(bytes) == <<92, 120>> \o ToHexChars(bytes)

\* the text of a bigint below 100, and strtoll(text, nullptr, 10) on it
DecimalChars(n) == IF n < 10 THEN <<48 + n>> ELSE <<48 + (n \div 10), 48 + (n % 10)>>

strtoll(text) ==
    LET F[k \in 0..Len(text)] ==
            IF k = 0 THEN 0
            ELSE IF text[k] >= 48 /\ text[k] <= 57 THEN 10 * F[k - 1] + (text[k] - 48)
            ELSE F[k - 1]
    IN  F[Len(text)]

\* found_hash after the sscanf loop over hash_hex; `garbage` is what the
\* uninitialised bytes of found_hash hold
ParseFoundHash(hash_hex, garbage) ==
    [j \in 1..HASH_SIZE |->
        IF 2 * j <= Len(hash_hex)
        THEN Sscanf2hhx(hash_hex[2 * j - 1], hash_hex[2 * j], garbage)
        ELSE garbage]

\* the rows of: SELECT content_hash, id FROM atom WHERE content_hash IN (...)
\* for the literals of hashes[offset .. offset + batch_count - 1]
QueryRows(table, hashes, offset, batch_count) ==
    LET literals == { ToHexChars(hashes[offset + i]) : i \in 1..batch_count }
        hit == SelectSeq(table, LAMBDA row : ToHexChars(row.hash) \in literals)
    IN  [r \in 1..Len(hit) |-> <<ByteaOut(hit[r].hash), DecimalChars(hit[r].id)>>]

\* the row loop: out_ids after rows 1..Len(rows) were handled
ApplyRows(out_ids, rows, hashes, offset, batch_count, garbage) ==
    LET F[r \in 0..Len(rows)] ==
            IF r = 0 THEN out_ids
            ELSE LET found_hash == ParseFoundHash(rows[r][1], garbage)
                     id == strtoll(rows[r][2])
                     matches == { i \in 1..batch_count : hashes[offset + i] = found_hash }
                 IN  IF matches = {} THEN F[r - 1]
                     ELSE LET first == CHOOSE i \in matches : \A m \in matches : i <= m
                          IN  [F[r - 1] EXCEPT ![offset + first] = id]
    IN  F[Len(rows)]

MaxLookup == 3

\* two digests that differ in the last byte, and one of 32 equal bytes
LookupDigests == SampleDigests \cup { [i \in 1..HASH_SIZE |-> 7] }

\* what an uninitialised unsigned char may hold
GarbageBytes == {0, 7}

\* the tables: any set of the digests, ids from 1 in insertion order
LookupTables ==
    { t \in UNION { [1..n -> LookupDigests] : n \in 0..3 } :
        \A i, j \in 1..Len(t) : i < j => t[i] # t[j] }

LookupInit ==
    /\ \E t \in LookupTables, faulty \in BOOLEAN :
         db = [NewDb(faulty) EXCEPT !.table = [k \in 1..Len(t) |-> [id |-> k, hash |-> t[k]]]]
    /\ \E n \in 0..MaxLookup, conn \in BOOLEAN :
         \E hashes \in [1..n -> LookupDigests] :
           ing = [fn |-> "lookup", phase |-> "call", conn |-> conn, hashes |-> hashes,
                  count |-> n, out_ids |-> <<>>, offset |-> 0, ret |-> 0]
    /\ pending = <<>>
    /\ hx = Idle /\ simd = Idle /\ hc = Idle

\* the argument check and the memset of out_ids
LookupBegin ==
    /\ ing.fn = "lookup" /\ ing.phase = "call"
    /\ ing' = IF ~ing.conn
              THEN [ing EXCEPT !.phase = "returned", !.ret = HART_ERROR_INVALID_INPUT]
              ELSE [ing EXCEPT !.phase = "loop", !.out_ids = [i \in 1..ing.count |-> 0]]
    /\ UNCHANGED <<db, pending, hilbertVars, simdVars, hashVars>>

\* one iteration of the offset loop: the query and its rows
LookupBatch ==
    /\ ing.fn = "lookup" /\ ing.phase = "loop"
    /\ ing.offset < ing.count
    /\ LET rest == ing.count - ing.offset
           batch_count == IF LOOKUP_BATCH_SIZE < rest THEN LOOKUP_BATCH_SIZE ELSE rest
           rows == QueryRows(db.table, ing.hashes, ing.offset, batch_count)
       IN  \E tuples_ok \in {TRUE} \cup {~db.faulty}, garbage \in GarbageBytes :
             ing' = IF ~tuples_ok
                    THEN [ing EXCEPT !.phase = "returned", !.ret = HART_ERROR_DB_QUERY]
                    ELSE [ing EXCEPT
                            !.out_ids = ApplyRows(ing.out_ids, rows, ing.hashes,
                                                  ing.offset, batch_count, garbage),
                            !.offset = @ + LOOKUP_BATCH_SIZE]
    /\ UNCHANGED <<db, pending, hilbertVars, simdVars, hashVars>>

\* the loop is over: return HART_OK
LookupReturn ==
    /\ ing.fn = "lookup" /\ ing.phase = "loop"
    /\ ~(ing.offset < ing.count)
    /\ ing' = [ing EXCEPT !.phase = "returned", !.ret = HART_OK]
    /\ UNCHANGED <<db, pending, hilbertVars, simdVars, hashVars>>

LookupNext == LookupBegin \/ LookupBatch \/ LookupReturn

SpecLookup == LookupInit /\ [][LookupNext]_vars

\* C16: when hart_batch_lookup_atoms returns HART_OK, out_ids[i] is the id
\* of the stored atom whose content_hash equals hashes[i], and it is 0
\* exactly when no stored atom has that hash, for every count and every
\* input array.
C16_LookupResult ==
    ( ing.fn = "lookup" /\ ing.phase = "returned" /\ ing.ret = HART_OK ) =>
        \A i \in 1..ing.count :
            /\ \A t \in 1..Len(db.table) :
                 db.table[t].hash = ing.hashes[i] => ing.out_ids[i] = db.table[t].id
            /\ ing.out_ids[i] = 0 <=>
                 ~\E t \in 1..Len(db.table) : db.table[t].hash = ing.hashes[i]

(***************************************************************************)
(* simd.c: detect_simd_capabilities.  simd.hw is the machine: the CPUID    *)
(* registers and XCR0.  g_simd_caps and g_simd_detected are the statics of *)
(* simd.c, shared by the calling threads without synchronisation; each     *)
(* statement that touches them is one step of the calling thread.          *)
(***************************************************************************)
ZeroCaps ==
    [has_sse2 |-> 0, has_sse41 |-> 0, has_avx |-> 0, has_avx2 |-> 0, has_avx512f |-> 0]

\* g_simd_caps after the leaf-1 block
CapsLeaf1(caps, hw, max_level) ==
    IF max_level >= 1
    THEN [caps EXCEPT !.has_sse2 = BitAt(hw.leaf1_edx, 26),
                      !.has_sse41 = BitAt(hw.leaf1_ecx, 19),
                      !.has_avx = BitAt(hw.leaf1_ecx, 28)]
    ELSE caps

\* g_simd_caps after the leaf-7 block
CapsLeaf7(caps, hw, max_level) ==
    IF max_level >= 7
    THEN [caps EXCEPT !.has_avx2 = BitAt(hw.leaf7_ebx, 5),
                      !.has_avx512f = BitAt(hw.leaf7_ebx, 16)]
    ELSE caps

\* int osxsave = (ecx >> 27) & 1
OsXsave(hw) == BitAt(hw.leaf1_ecx, 27)

\* the block is entered: g_simd_caps.has_avx and osxsave
VerifyEntered(caps, hw) == caps.has_avx = 1 /\ OsXsave(hw) = 1

\* (xcr0 & 0x6) != 0x6
YmmDisabled(hw) == ~(BitAt(hw.xcr0, 1) = 1 /\ BitAt(hw.xcr0, 2) = 1)

\* (xcr0 & 0xE0) != 0xE0
ZmmDisabled(hw) == ~(BitAt(hw.xcr0, 5) = 1 /\ BitAt(hw.xcr0, 6) = 1 /\ BitAt(hw.xcr0, 7) = 1)

\* g_simd_caps after the YMM check
CapsYmm(caps, hw) ==
    IF YmmDisabled(hw) THEN [caps EXCEPT !.has_avx = 0, !.has_avx2 = 0] ELSE caps

\* g_simd_caps after the ZMM check
CapsZmm(caps, hw) ==
    IF ZmmDisabled(hw) THEN [caps EXCEPT !.has_avx512f = 0] ELSE caps

\* the record one undisturbed detection leaves in g_simd_caps
FinishedDetection(hw) ==
    LET probed == CapsLeaf7(CapsLeaf1(ZeroCaps, hw, hw.max_level), hw, hw.max_level)
    IN  IF VerifyEntered(probed, hw) THEN CapsZmm(CapsYmm(probed, hw), hw) ELSE probed

Threads == {"A", "B"}

\* calls each thread makes
CallsPerThread == 2

\* XCR0: nothing enabled, x87/SSE only, YMM, YMM and ZMM, ZMM without YMM
Xcr0Samples == {0, 3, 7, 231, 225}

Machines ==
    { [max_level |-> ml, leaf1_edx |-> sse * Pow2(26),
       leaf1_ecx |-> sse * Pow2(19) + osx * Pow2(27) + avx * Pow2(28),
       leaf7_ebx |-> avx2 * Pow2(5) + avx512 * Pow2(16), xcr0 |-> x] :
        ml \in {0, 1, 7}, sse \in {0, 1}, osx \in {0, 1}, avx \in {0, 1},
        avx2 \in {0, 1}, avx512 \in {0, 1}, x \in Xcr0Samples }

SimdInit ==
    /\ \E hw \in Machines, callers \in (SUBSET Threads) \ {{}} :
         simd = [phase |-> "detect", hw |-> hw, callers |-> callers,
                 g_simd_caps |-> ZeroCaps, g_simd_detected |-> 0,
                 rerun |-> FALSE,
                 thr |-> [t \in Threads |->
                            [pc |-> "idle", max_level |-> 0, rets |-> <<>>]]]
    /\ hx = Idle /\ hc = Idle
    /\ ing = Idle /\ db = Idle /\ pending = <<>>

SimdOthers == UNCHANGED <<hilbertVars, hashVars, ingestVars>>

\* the call and if (g_simd_detected) return g_simd_caps
SimdCheck(t) ==
    /\ simd.phase = "detect" /\ t \in simd.callers
    /\ simd.thr[t].pc = "idle"
    /\ Len(simd.thr[t].rets) < CallsPerThread
    /\ simd' = IF simd.g_simd_detected # 0
               THEN [simd EXCEPT !.thr[t].rets = Append(@, simd.g_simd_caps)]
               ELSE [simd EXCEPT !.thr[t].pc = "leaf0"]
    /\ SimdOthers

\* detect_cpuid(0, 0, ...); max_level = eax
SimdLeaf0(t) ==
    /\ simd.phase = "detect" /\ simd.thr[t].pc = "leaf0"
    /\ simd' = [simd EXCEPT !.thr[t].max_level = simd.hw.max_level,
                            !.thr[t].pc = "leaf1",
                            !.rerun = @ \/ simd.g_simd_detected # 0]
    /\ SimdOthers

SimdLeaf1(t) ==
    /\ simd.phase = "detect" /\ simd.thr[t].pc = "leaf1"
    /\ simd' = [simd EXCEPT
                  !.g_simd_caps = CapsLeaf1(@, simd.hw, simd.thr[t].max_level),
                  !.thr[t].pc = "leaf7",
                  !.rerun = @ \/ simd.g_simd_detected # 0]
    /\ SimdOthers

SimdLeaf7(t) ==
    /\ simd.phase = "detect" /\ simd.thr[t].pc = "leaf7"
    /\ simd' = [simd EXCEPT
                  !.g_simd_caps = CapsLeaf7(@, simd.hw, simd.thr[t].max_level),
                  !.thr[t].pc = "verify",
                  !.rerun = @ \/ simd.g_simd_detected # 0]
    /\ SimdOthers

\* if (g_simd_caps.has_avx) { ... if (osxsave) { xgetbv; the YMM check
SimdVerifyYmm(t) ==
    /\ simd.phase = "detect" /\ simd.thr[t].pc = "verify"
    /\ simd' = IF VerifyEntered(simd.g_simd_caps, simd.hw)
               THEN [simd EXCEPT !.g_simd_caps = CapsYmm(@, simd.hw),
                                 !.thr[t].pc = "verify_zmm",
                                 !.rerun = @ \/ simd.g_simd_detected # 0]
               ELSE [simd EXCEPT !.thr[t].pc = "mark"]
    /\ SimdOthers

\* the ZMM check
SimdVerifyZmm(t) ==
    /\ simd.phase = "detect" /\ simd.thr[t].pc = "verify_zmm"
    /\ simd' = [simd EXCEPT !.g_simd_caps = CapsZmm(@, simd.hw),
                            !.thr[t].pc = "mark",
                            !.rerun = @ \/ simd.g_simd_detected # 0]
    /\ SimdOthers

\* g_simd_detected = 1
SimdMark(t) ==
    /\ simd.phase = "detect" /\ simd.thr[t].pc = "mark"
    /\ simd' = [simd EXCEPT !.g_simd_detected = 1, !.thr[t].pc = "return"]
    /\ SimdOthers

\* return g_simd_caps
SimdReturn(t) ==
    /\ simd.phase = "detect" /\ simd.thr[t].pc = "return"
    /\ simd' = [simd EXCEPT !.thr[t].rets = Append(@, simd.g_simd_caps),
                            !.thr[t].pc = "idle"]
    /\ SimdOthers

SimdNext ==
    \E t \in Threads :
        \/ SimdCheck(t)
        \/ SimdLeaf0(t)
        \/ SimdLeaf1(t)
        \/ SimdLeaf7(t)
        \/ SimdVerifyYmm(t)
        \/ SimdVerifyZmm(t)
        \/ SimdMark(t)
        \/ SimdReturn(t)

SpecSimd == SimdInit /\ [][SimdNext]_vars

\* C17: whatever the CPUID bits, the OSXSAVE bit and XCR0 are, a record
\* returned by detect_simd_capabilities (one caller) has has_avx or
\* has_avx2 set only if OSXSAVE is set and XCR0 has bits 1 and 2, and
\* has_avx512f only if OSXSAVE is set and XCR0 has bits 5, 6 and 7.
C17_OsVerifiedBeforeAvx ==
    ( simd.phase = "detect" /\ simd.callers = {"A"} ) =>
        \A k \in 1..Len(simd.thr["A"].rets) :
            LET caps == simd.thr["A"].rets[k]
            IN  /\ (caps.has_avx = 1 \/ caps.has_avx2 = 1) =>
                     OsXsave(simd.hw) = 1 /\ ~YmmDisabled(simd.hw)
                /\ caps.has_avx512f = 1 =>
                     OsXsave(simd.hw) = 1 /\ ~ZmmDisabled(simd.hw)

\* C18: under any interleaving of concurrent callers every call returns the
\* record of the finished detection, the CPUID/XGETBV sequence is not run
\* once g_simd_detected is set, and no caller gets a record with a flag set
\* that the finished detection clears.
C18_DetectedOnce ==
    simd.phase = "detect" =>
        /\ ~simd.rerun
        /\ \A t \in Threads : \A k \in 1..Len(simd.thr[t].rets) :
             LET caps == simd.thr[t].rets[k]
                 final == FinishedDetection(simd.hw)
             IN  /\ caps = final
                 /\ caps.has_avx <= final.has_avx
                 /\ caps.has_avx2 <= final.has_avx2
                 /\ caps.has_avx512f <= final.has_avx512f

(***************************************************************************)
(* simd.c: distance_4d_squared and batch_distance_4d.  A double is a sign  *)
(* and a magnitude; the magnitude is the set of the exponents of its one   *)
(* bits (0.625 = 2^-1 + 2^-3 is {-1, -3}), so that sums and products are   *)
(* exact before they are rounded to the 53 significant bits of a double,   *)
(* to nearest, ties to even.  The samples stay far from the exponent       *)
(* limits: overflow and subnormals are not modelled.                       *)
(***************************************************************************)
DBL_MANT_DIG == 53

MaxBit(A) == CHOOSE i \in A : \A j \in A : j <= i

BitXor(A, B) == { i : i \in (A \ B) \cup (B \ A) }

\* the first position above j that is not in P (one exists up to top)
RunEnd(P, j, top) ==
    CHOOSE k \in (j + 1)..top : k \notin P /\ \A m \in (j + 1)..(k - 1) : m \in P

\* the first position above j that is in D
NextIn(D, j) ==
    CHOOSE k \in D : k > j /\ \A m \in D : m > j => k <= m

\* the carries of A + B, given P = A xor B and G = A and B: a carry starts
\* above every position of G and runs through the positions of P
Carries(P, G, top) == UNION { (j + 1)..RunEnd(P, j, top) : j \in G }

\* the borrows of A - B, given D = A xor B and L = B \ A: a borrow starts
\* above every position of L and runs up to the next position of D
Borrows(D, L) == UNION { (j + 1)..NextIn(D, j) : j \in L }

\* A + B; the operands and the intermediate sets are evaluated once
MagAdd(A, B) ==
    CHOOSE sum \in
        { IF g = {} THEN p
          ELSE UNION { BitXor(p, c) : c \in {Carries(p, g, MaxBit(p \cup g) + 1)} } :
              p \in {BitXor(A, B)}, g \in {{ i : i \in A \cap B }} } : TRUE

\* A - B for A >= B
MagSub(A, B) ==
    CHOOSE diff \in
        { IF l = {} THEN d
          ELSE UNION { BitXor(d, c) : c \in {Borrows(d, l)} } :
              d \in {BitXor(A, B)}, l \in {{ i : i \in B \ A }} } : TRUE

MagLess(A, B) ==
    \E d \in {BitXor(A, B)} : d # {} /\ \E b \in {{ i : i \in B }} : MaxBit(d) \in b

\* A * B: the sum of the copies of A shifted by the positions of B, added
\* up by halves of B
MinBit(A) == CHOOSE i \in A : \A j \in A : i <= j

RECURSIVE MulBits(_, _)
MulBits(A, B) ==
    IF B = {} THEN {}
    ELSE CHOOSE prod \in
           { IF lowest = b THEN { i + b : i \in A }
             ELSE MagAdd(MulBits(A, { i : i \in { j \in B : j <= (lowest + b) \div 2 } }),
                         MulBits(A, { i : i \in { j \in B : j > (lowest + b) \div 2 } })) :
                 b \in {MaxBit(B)}, lowest \in {MinBit(B)} } : TRUE

MagMul(A, B) ==
    CHOOSE prod \in { MulBits(a, b) : a \in {{ i : i \in A }}, b \in {{ i : i \in B }} } : TRUE

\* round to nearest, ties to even, at DBL_MANT_DIG significant bits
RoundBits(A) ==
    IF A = {} THEN {}
    ELSE LET last == MaxBit(A) - (DBL_MANT_DIG - 1)
             kept == { i \in A : i >= last }
             half == (last - 1) \in A
             sticky == \E i \in A : i < last - 1
         IN  IF half /\ (sticky \/ last \in A) THEN MagAdd(kept, {last}) ELSE kept

RoundToDouble(A) == CHOOSE r \in { RoundBits(a) : a \in {{ i : i \in A }} } : TRUE

Dbl(neg, mag) == [neg |-> neg, mag |-> mag]

PlusZero == Dbl(FALSE, {})

\* a + b of two doubles
AddDbl(x, y) ==
    IF x.neg = y.neg THEN Dbl(x.neg, RoundToDouble(MagAdd(x.mag, y.mag)))
    ELSE IF x.mag = y.mag THEN PlusZero
    ELSE IF MagLess(x.mag, y.mag) THEN Dbl(y.neg, RoundToDouble(MagSub(y.mag, x.mag)))
    ELSE Dbl(x.neg, RoundToDouble(MagSub(x.mag, y.mag)))

\* the operands of an operation are evaluated once
FAdd(x, y) == CHOOSE r \in { AddDbl(a, b) : a \in {x}, b \in {y} } : TRUE

FSub(x, y) == CHOOSE r \in { AddDbl(a, Dbl(~b.neg, b.mag)) : a \in {x}, b \in {y} } : TRUE

FMul(x, y) ==
    CHOOSE r \in { Dbl(a.neg # b.neg, RoundToDouble(MagMul(a.mag, b.mag))) :
                     a \in {x}, b \in {y} } : TRUE

\* the binary digits of the square root from bit b down to bit last,
\* and the remainder
RECURSIVE SqrtDigits(_, _, _, _)
SqrtDigits(rem, r, b, last) ==
    IF b < last THEN [root |-> r, rem |-> rem]
    ELSE IF b = last
    THEN CHOOSE d \in
           { IF MagLess(rem, t) THEN [root |-> r, rem |-> rem]
             ELSE [root |-> { i : i \in r \cup {b} }, rem |-> MagSub(rem, t)] :
                 t \in {{ i : i \in { j + b + 1 : j \in r } \cup { 2 * b } }} } : TRUE
    ELSE CHOOSE d \in
           { IF upper.rem = {} THEN upper
             ELSE SqrtDigits(upper.rem, upper.root, (b + last) \div 2, last) :
                 upper \in {SqrtDigits(rem, r, b, (b + last) \div 2 + 1)} } : TRUE

FloorHalf(n) == IF n >= 0 THEN n \div 2 ELSE -((1 - n) \div 2)

\* sqrt of a double that is not negative, correctly rounded
SqrtDbl(x) ==
    IF x.mag = {} THEN x
    ELSE CHOOSE r \in
           { Dbl(FALSE, RoundToDouble(d.root \cup
                            (IF d.rem = {} THEN {}
                             ELSE { FloorHalf(MaxBit(x.mag)) - DBL_MANT_DIG - 2 }))) :
                 d \in { SqrtDigits(x.mag, {}, b, b - DBL_MANT_DIG) :
                             b \in {FloorHalf(MaxBit(x.mag))} } } : TRUE

FSqrt(x) == CHOOSE r \in { SqrtDbl(a) : a \in {x} } : TRUE

\* a vector register is the tuple of its lanes, lane 0 first
Mm256SetPd(e3, e2, e1, e0) == <<e0, e1, e2, e3>>

Mm256SubPd(a, b) == [k \in DOMAIN a |-> FSub(a[k], b[k])]

Mm256MulPd(a, b) == [k \in DOMAIN a |-> FMul(a[k], b[k])]

MmAddPd(a, b) == [k \in DOMAIN a |-> FAdd(a[k], b[k])]

\* the portable expression dx*dx + dy*dy + dz*dz + dm*dm
ScalarDistanceSquared(p1, p2) ==
    LET dx == FSub(p1[1], p2[1])
        dy == FSub(p1[2], p2[2])
        dz == FSub(p1[3], p2[3])
        dm == FSub(p1[4], p2[4])
    IN  FAdd(FAdd(FAdd(FMul(dx, dx), FMul(dy, dy)), FMul(dz, dz)), FMul(dm, dm))

\* the AVX block of distance_4d_squared
AvxDistanceSquared(p1, p2) ==
    LET v1 == Mm256SetPd(p1[4], p1[3], p1[2], p1[1])
        v2 == Mm256SetPd(p2[4], p2[3], p2[2], p2[1])
        diff == Mm256SubPd(v1, v2)
        sq == Mm256MulPd(diff, diff)
        lo == <<sq[1], sq[2]>>
        hi == <<sq[3], sq[4]>>
        sum == MmAddPd(lo, hi)
        shuf == <<sum[2], sum[1]>>
    IN  FAdd(sum[1], shuf[1])

distance_4d_squared(p1, p2, build, caps) ==
    IF build.avx_headers /\ caps.has_avx # 0
    THEN AvxDistanceSquared(p1, p2)
    ELSE ScalarDistanceSquared(p1, p2)

distance_4d(p1, p2, build, caps) == FSqrt(distance_4d_squared(p1, p2, build, caps))

\* one lane of the AVX2 loop of batch_distance_4d
Avx2Distance(q, p) ==
    LET dx == FSub(q[1], p[1])
        dy == FSub(q[2], p[2])
        dz == FSub(q[3], p[3])
        dm == FSub(q[4], p[4])
    IN  FSqrt(FAdd(FAdd(FMul(dx, dx), FMul(dy, dy)),
                   FAdd(FMul(dz, dz), FMul(dm, dm))))

batch_distance_4d(q, pts, count, build, caps) ==
    IF build.avx_headers /\ caps.has_avx2 # 0 /\ count >= 4
    THEN LET vec_count == count - (count % 4)
         IN  [i \in 1..count |->
                 IF i <= vec_count THEN Avx2Distance(q, pts[i])
                 ELSE distance_4d(q, pts[i], build, caps)]
    ELSE [i \in 1..count |-> distance_4d(q, pts[i], build, caps)]

\* targets per batch call
MaxCount == 5

Zero4 == <<PlusZero, PlusZero, PlusZero, PlusZero>>

One == Dbl(FALSE, {0})

\* 1 + 2^-30, 0.625, 2^26, 2^26 + 1, 3
SamplePoints ==
    << <<PlusZero, One, Dbl(FALSE, {26}), Dbl(FALSE, {26, 0})>>,
       <<Dbl(FALSE, {26}), Dbl(FALSE, {-1, -3}), PlusZero, Dbl(FALSE, {-1, -3})>>,
       <<One, One, One, One>>,
       <<Dbl(FALSE, {0, -30}), PlusZero, Dbl(FALSE, {0, 1}), Dbl(FALSE, {-1, -3})>>,
       <<Dbl(TRUE, {0, 1}), One, Dbl(FALSE, {-1, -3}), Dbl(TRUE, {26})>>,
       Zero4 >>

SampleQueries == { Zero4, <<One, One, One, One>> }

\* the targets of a call: count sample points from start on, cyclically
Targets(start, count) ==
    [i \in 1..count |-> SamplePoints[((start + i - 2) % Len(SamplePoints)) + 1]]

NotCalled == [called |-> FALSE]

DistanceInit ==
    /\ \E hdr \in BOOLEAN, avx \in {0, 1}, avx2 \in {0, 1}, q \in SampleQueries,
          start \in 1..Len(SamplePoints), count \in 0..MaxCount :
         simd = [phase |-> "distance",
                 build |-> [avx_headers |-> hdr],
                 caps |-> [ZeroCaps EXCEPT !.has_avx = avx, !.has_avx2 = avx2],
                 q |-> q, targets |-> Targets(start, count),
                 squared |-> NotCalled, batch |-> NotCalled]
    /\ hx = Idle /\ hc = Idle
    /\ ing = Idle /\ db = Idle /\ pending = <<>>

Distance4dSquaredCall ==
    /\ simd.phase = "distance" /\ ~simd.squared.called
    /\ \E k \in 1..Len(SamplePoints) :
         simd' = [simd EXCEPT !.squared =
                    [called |-> TRUE, p1 |-> simd.q, p2 |-> SamplePoints[k],
                     value |-> distance_4d_squared(simd.q, SamplePoints[k],
                                                   simd.build, simd.caps)]]
    /\ SimdOthers

BatchDistance4dCall ==
    /\ simd.phase = "distance" /\ ~simd.batch.called
    /\ simd' = [simd EXCEPT !.batch =
                  [called |-> TRUE,
                   distances |-> batch_distance_4d(simd.q, simd.targets,
                                     Len(simd.targets), simd.build, simd.caps)]]
    /\ SimdOthers

DistanceNext == Distance4dSquaredCall \/ BatchDistance4dCall

SpecDistance == DistanceInit /\ [][DistanceNext]_vars

\* C19: distance_4d_squared and batch_distance_4d return, whichever path
\* the build and the detected capabilities select, the value of the scalar
\* fallback ((dx*dx + dy*dy) + dz*dz) + dm*dm (its square root for the
\* batch), for every input and every count, remainder elements included.
C19_VectorEqualsScalar ==
    simd.phase = "distance" =>
        /\ simd.squared.called =>
             simd.squared.value = ScalarDistanceSquared(simd.squared.p1, simd.squared.p2)
        /\ simd.batch.called =>
             \A i \in 1..Len(simd.targets) :
                 simd.batch.distances[i] =
                     FSqrt(ScalarDistanceSquared(simd.q, simd.targets[i]))

(***************************************************************************)
(* The layout of the key coords_to_hilbert returns.                        *)
(***************************************************************************)
\* the Gray digits of the levels in the order the loop produces them
RECURSIVE LevelDigits(_, _, _)
LevelDigits(coords, bit, state) ==
    IF bit < 0 THEN <<>>
    ELSE LET gray == binary_to_gray_4(Xor4(GatherBits(coords, state.perm, bit), state.flip))
         IN  <<gray>> \o LevelDigits(coords, bit - 1, update_rotation(state, gray))

\* hexadecimal digit n (0 the least significant, 31 the most) of the
\* 128-bit value (high, low)
Key128Nibble(key, n) ==
    IF n >= 16 THEN U64Nibble(key.high, 4 * (n - 16)) ELSE U64Nibble(key.low, 4 * n)

\* C20: in the 128-bit key (high, low) the Gray digit of the first level
\* processed occupies the most significant 4 bits, and each later level
\* the next lower 4 bits.
C20_KeyLayout ==
    hx.phase = "encoded" =>
        LET digits == LevelDigits(hx.cells, HILBERT_BITS_PER_DIM - 1, INITIAL_STATE)
        IN  \A k \in 1..HILBERT_BITS_PER_DIM :
                Key128Nibble(hx.key, 32 - k) = digits[k]

(***************************************************************************)
(* hilbert_distance (hilbert.c) and hart_hilbert_distance                  *)
(* (hilbert_curve.cpp) on pairs of keys.                                   *)
(***************************************************************************)
\* a < b on uint64_t
U64Less(a, b) ==
    \E i \in 0..15 : a[i] < b[i] /\ \A j \in (i + 1)..15 : a[j] = b[j]

\* the hexadecimal digits i..15 of a - b (mod 2^64), given the borrow
RECURSIVE SubDigits(_, _, _, _)
SubDigits(a, b, i, borrow) ==
    IF i > 15 THEN <<>>
    ELSE LET d == a[i] - b[i] - borrow
         IN  <<(d + 16) % 16>> \o SubDigits(a, b, i + 1, IF d < 0 THEN 1 ELSE 0)

\* a - b on uint64_t
U64Sub(a, b) ==
    LET digits == SubDigits(a, b, 0, 0) IN [i \in 0..15 |-> digits[i + 1]]

\* hilbert.c
hilbert_distance(a, b) ==
    IF U64Less(b.low, a.low) THEN U64Sub(a.low, b.low) ELSE U64Sub(b.low, a.low)

\* hilbert_curve.cpp, both pointers not null
hart_hilbert_distance(a, b) ==
    LET diff_high == IF U64Less(b.high, a.high) THEN U64Sub(a.high, b.high)
                     ELSE U64Sub(b.high, a.high)
        diff_low == IF U64Less(b.low, a.low) THEN U64Sub(a.low, b.low)
                    ELSE U64Sub(b.low, a.low)
    IN  IF U64Less(U64Zero, diff_high) THEN diff_high ELSE diff_low

\* 0, 1, 5, 2^63, 2^64 - 1, 0xF00000000000000F
SampleWords ==
    { U64Zero, [U64Zero EXCEPT ![0] = 1], [U64Zero EXCEPT ![0] = 5],
      [U64Zero EXCEPT ![15] = 8], [i \in 0..15 |-> 15],
      [U64Zero EXCEPT ![0] = 15, ![15] = 15] }

SampleKeys == [high : SampleWords, low : SampleWords]

KeyDistanceInit ==
    /\ \E a \in SampleKeys, b \in SampleKeys :
         hx = [phase |-> "keys", a |-> a, b |-> b,
               plain |-> NotCalled, hart |-> NotCalled]
    /\ hc = Idle /\ simd = Idle
    /\ ing = Idle /\ db = Idle /\ pending = <<>>

\* hilbert_distance(a, b) and hilbert_distance(b, a)
HilbertDistanceCall ==
    /\ hx.phase = "keys" /\ ~hx.plain.called
    /\ hx' = [hx EXCEPT !.plain = [called |-> TRUE,
                                   ab |-> hilbert_distance(hx.a, hx.b),
                                   ba |-> hilbert_distance(hx.b, hx.a)]]
    /\ UNCHANGED <<hashVars, ingestVars, simdVars>>

\* hart_hilbert_distance(&a, &b) and hart_hilbert_distance(&b, &a)
HartHilbertDistanceCall ==
    /\ hx.phase = "keys" /\ ~hx.hart.called
    /\ hx' = [hx EXCEPT !.hart = [called |-> TRUE,
                                  ab |-> hart_hilbert_distance(hx.a, hx.b),
                                  ba |-> hart_hilbert_distance(hx.b, hx.a)]]
    /\ UNCHANGED <<hashVars, ingestVars, simdVars>>

KeyDistanceNext == HilbertDistanceCall \/ HartHilbertDistanceCall

SpecKeyDistance == KeyDistanceInit /\ [][KeyDistanceNext]_vars

\* |x - y| on uint64_t
AbsDiff(x, y) == IF U64Less(y, x) THEN U64Sub(x, y) ELSE U64Sub(y, x)

\* the distance the keys a and b are to have
HalvesDistance(a, b) ==
    IF a.high # b.high THEN AbsDiff(a.high, b.high) ELSE AbsDiff(a.low, b.low)

DistanceAsStated(r, a, b) ==
    /\ r.ab = HalvesDistance(a, b)
    /\ r.ab = r.ba
    /\ (r.ab = U64Zero) => (a = b)

\* C21: for every pair of keys the distance is the absolute difference of
\* the high halves when they differ and of the low halves when the high
\* halves are equal; it is symmetric and 0 only for equal keys.
C21_HilbertDistance ==
    hx.phase = "keys" =>
        /\ hx.plain.called => DistanceAsStated(hx.plain, hx.a, hx.b)
        /\ hx.hart.called => DistanceAsStated(hx.hart, hx.a, hx.b)

(***************************************************************************)
(* The order of the keys of coords_to_hilbert over the quantized grid:     *)
(* the cells of a key and of the next key.  A key is chosen by its         *)
(* CurveFreeDigits least significant digits and a pattern for the others;  *)
(* its cell is found by the decode loop and encoded again.                 *)
(***************************************************************************)
CurveFreeDigits == 2

\* the hexadecimal digits i..15 of v + carry
RECURSIVE IncDigits(_, _, _)
IncDigits(v, i, carry) ==
    IF i > 15 THEN <<>>
    ELSE <<(v[i] + carry) % 16>> \o IncDigits(v, i + 1, (v[i] + carry) \div 16)

\* v + 1 on uint64_t
U64Inc(v) ==
    LET digits == IncDigits(v, 0, 1) IN [i \in 0..15 |-> digits[i + 1]]

UpperDigitPatterns == {0, 5, 15}

CurveKeys ==
    { [high |-> U64Zero,
       low |-> [i \in 0..15 |-> IF i < CurveFreeDigits THEN f[i] ELSE u]] :
        f \in [0..(CurveFreeDigits - 1) -> 0..15], u \in UpperDigitPatterns }

KeyOfCells(cells) ==
    EncodeLevels(cells, HILBERT_BITS_PER_DIM - 1, INITIAL_STATE,
                 [high |-> U64Zero, low |-> U64Zero])

CurveInit ==
    /\ \E k \in CurveKeys :
         /\ k.low # [i \in 0..15 |-> 15]
         /\ hx = [phase |-> "curve", k |-> k,
                  cell1 |-> Vec4(0, 0, 0, 0), cell2 |-> Vec4(0, 0, 0, 0),
                  key1 |-> k, key2 |-> k]
    /\ hc = Idle /\ simd = Idle
    /\ ing = Idle /\ db = Idle /\ pending = <<>>

\* hilbert_to_coords for the key k and for k + 1
CurveDecode ==
    /\ hx.phase = "curve"
    /\ hx' = [hx EXCEPT !.phase = "curve_cells",
                        !.cell1 = DecodeCells(hx.k),
                        !.cell2 = DecodeCells([high |-> hx.k.high,
                                               low |-> U64Inc(hx.k.low)])]
    /\ UNCHANGED <<hashVars, ingestVars, simdVars>>

\* coords_to_hilbert for the two cells
CurveEncode ==
    /\ hx.phase = "curve_cells"
    /\ hx' = [hx EXCEPT !.phase = "curve_keys",
                        !.key1 = KeyOfCells(hx.cell1),
                        !.key2 = KeyOfCells(hx.cell2)]
    /\ UNCHANGED <<hashVars, ingestVars, simdVars>>

CurveNext == CurveDecode \/ CurveEncode

SpecCurve == CurveInit /\ [][CurveNext]_vars

\* the cells differ by exactly 1 in exactly one axis
Neighbours(c1, c2) ==
    \E d \in 0..3 :
        /\ c1[d] - c2[d] \in {-1, 1}
        /\ \A e \in 0..3 \ {d} : c1[e] = c2[e]

\* C22: two quantized cells whose keys are consecutive integers differ by
\* exactly 1 in exactly one of the four axes and are equal in the others.
C22_ConsecutiveKeysAreNeighbours ==
    ( /\ hx.phase = "curve_keys"
      /\ hx.key1.high = hx.key2.high
      /\ hx.key2.low = U64Inc(hx.key1.low) ) =>
        Neighbours(hx.cell1, hx.cell2)

(***************************************************************************)
(* The loops of coords_to_hilbert and hilbert_to_coords level by level:    *)
(* one step per iteration, with the rotation state before and after it.    *)
(***************************************************************************)
LevelsInit ==
    /\ \E q \in SampleCells :
         hx = [phase |-> "enc_levels", coords |-> q,
               bit |-> HILBERT_BITS_PER_DIM - 1, state |-> INITIAL_STATE,
               result |-> [high |-> U64Zero, low |-> U64Zero],
               dcoords |-> Vec4(0, 0, 0, 0),
               stepped |-> FALSE, prev |-> INITIAL_STATE, gray |-> 0,
               trace |-> <<>>]
    /\ hc = Idle /\ simd = Idle
    /\ ing = Idle /\ db = Idle /\ pending = <<>>

\* one iteration of the loop of coords_to_hilbert
EncodeLevelStep ==
    /\ hx.phase = "enc_levels" /\ hx.bit >= 0
    /\ LET bits == Xor4(GatherBits(hx.coords, hx.state.perm, hx.bit), hx.state.flip)
           gray == binary_to_gray_4(bits)
           shift_amount == hx.bit * 4
           after == update_rotation(hx.state, gray)
       IN  hx' = [hx EXCEPT
                    !.result = IF shift_amount < 64
                               THEN [@ EXCEPT !.low = U64OrShifted(@, gray, shift_amount)]
                               ELSE [@ EXCEPT !.high = U64OrShifted(@, gray, shift_amount - 64)],
                    !.prev = hx.state, !.gray = gray, !.stepped = TRUE,
                    !.state = after, !.trace = Append(@, after),
                    !.bit = hx.bit - 1]
    /\ UNCHANGED <<hashVars, ingestVars, simdVars>>

\* coords_to_hilbert returns; hilbert_to_coords is entered with its result
DecodeEnter ==
    /\ hx.phase = "enc_levels" /\ hx.bit < 0
    /\ hx' = [hx EXCEPT !.phase = "dec_levels",
                        !.bit = HILBERT_BITS_PER_DIM - 1,
                        !.state = INITIAL_STATE, !.stepped = FALSE]
    /\ UNCHANGED <<hashVars, ingestVars, simdVars>>

\* one iteration of the loop of hilbert_to_coords
DecodeLevelStep ==
    /\ hx.phase = "dec_levels" /\ hx.bit >= 0
    /\ LET shift_amount == hx.bit * 4
           gray == IF shift_amount < 64
                   THEN U64Nibble(hx.result.low, shift_amount)
                   ELSE U64Nibble(hx.result.high, shift_amount - 64)
           bits == Xor4(gray_to_binary_4(gray), hx.state.flip)
       IN  hx' = [hx EXCEPT
                    !.dcoords = ScatterBits(@, hx.state.perm, bits, hx.bit),
                    !.prev = hx.state, !.gray = gray, !.stepped = TRUE,
                    !.state = update_rotation(hx.state, gray),
                    !.bit = hx.bit - 1]
    /\ UNCHANGED <<hashVars, ingestVars, simdVars>>

LevelsNext == EncodeLevelStep \/ DecodeEnter \/ DecodeLevelStep

SpecLevels == LevelsInit /\ [][LevelsNext]_vars

\* perm with the entries 0 and b exchanged
SwappedAxes(perm, b) == [d \in 0..3 |-> IF d = 0 THEN perm[b] ELSE IF d = b THEN perm[0] ELSE perm[d]]

\* C24: after a level emits the Gray digit g the rotation state is
\* unchanged when g is 0 or 15; otherwise, with b the highest set bit of g,
\* axis[0] and axis[b] are exchanged and exactly the flip bit of the new
\* axis[0] is toggled (the bit numbered by that axis, or the bit of
\* position 0), everything else unchanged; the decode loop makes the same
\* update as the encode loop at the same level.
C24_RotationUpdate ==
    ( hx.phase \in {"enc_levels", "dec_levels"} /\ hx.stepped ) =>
        /\ IF hx.gray \in {0, 15} THEN hx.state = hx.prev
           ELSE /\ hx.state.perm = SwappedAxes(hx.prev.perm, HighestSetBit(hx.gray))
                /\ \E t \in {hx.state.perm[0], 0} :
                     hx.state.flip = Xor4(hx.prev.flip, Pow2(t))
        /\ hx.phase = "dec_levels" =>
             hx.state = hx.trace[HILBERT_BITS_PER_DIM - 1 - hx.bit]

(***************************************************************************)
(* atom_seed.c: compute_coords_from_seed and verify_on_sphere, in double   *)
(* arithmetic.  Doubles are written by their 53-bit significand, split in  *)
(* a high part and the 26 low bits, and the exponent of its last bit.      *)
(***************************************************************************)
\* the magnitude (hi * 2^26 + lo) * 2^e
MagOf(hi, lo, e) ==
    { e + i : i \in { j \in 0..25 : BitAt(lo, j) = 1 } }
        \cup { e + 26 + i : i \in { j \in 0..26 : BitAt(hi, j) = 1 } }

DblOf(hi, lo, e) == Dbl(FALSE, MagOf(hi, lo, e))

\* (double) of an unsigned integer below 2^31
FromInt(n) == Dbl(FALSE, { i \in 0..30 : BitAt(n, i) = 1 })

MagShift(A, k) == { i + k : i \in A }

\* long division: the quotient bits from position p down to last, and the
\* remainder
RECURSIVE DivDigits(_, _, _, _, _)
DivDigits(rem, B, q, p, last) ==
    IF p < last THEN [quot |-> q, rem |-> rem]
    ELSE IF p = last
    THEN CHOOSE d \in
           { IF MagLess(rem, t) THEN [quot |-> q, rem |-> rem]
             ELSE [quot |-> { i : i \in q \cup {p} }, rem |-> MagSub(rem, t)] :
                 t \in {MagShift(B, p)} } : TRUE
    ELSE CHOOSE d \in
           { IF upper.rem = {} THEN upper
             ELSE DivDigits(upper.rem, B, upper.quot, (p + last) \div 2, last) :
                 upper \in {DivDigits(rem, B, q, p, (p + last) \div 2 + 1)} } : TRUE

\* x / y, y not zero, correctly rounded
DivDbl(x, y) ==
    IF x.mag = {} THEN Dbl(x.neg # y.neg, {})
    ELSE CHOOSE r \in
           { Dbl(x.neg # y.neg, RoundToDouble(d.quot \cup
                            (IF d.rem = {} THEN {}
                             ELSE { MaxBit(x.mag) - MaxBit(y.mag) - DBL_MANT_DIG - 4 }))) :
                 d \in { DivDigits(x.mag, y.mag, {}, p, p - DBL_MANT_DIG - 2) :
                             p \in {MaxBit(x.mag) - MaxBit(y.mag)} } } : TRUE

FDiv(x, y) == CHOOSE r \in { DivDbl(a, b) : a \in {x}, b \in {y} } : TRUE

ModDbl(x, y) ==
    IF x.mag = {} \/ MagLess(x.mag, y.mag) THEN x
    ELSE Dbl(FALSE, DivDigits(x.mag, y.mag, {}, MaxBit(x.mag) - MaxBit(y.mag), 0).rem)

\* fmod(x, y) for x >= 0 and y > 0: exact
FMod(x, y) == CHOOSE r \in { ModDbl(a, b) : a \in {x}, b \in {y} } : TRUE

LessDbl(x, y) ==
    IF x.mag = {} /\ y.mag = {} THEN FALSE
    ELSE IF x.neg # y.neg THEN x.neg
    ELSE IF x.neg THEN MagLess(y.mag, x.mag) ELSE MagLess(x.mag, y.mag)

\* x < y
FLess(x, y) == \E a \in {x}, b \in {y} : LessDbl(a, b)

FAbs(x) == Dbl(FALSE, x.mag)

(***************************************************************************)
(* compute_coords_from_seed.  sin and cos are the C library's: LibmSin and *)
(* LibmCos give their correctly rounded values at the angles the sample    *)
(* seeds produce, and a call may be off by one unit in the last place.     *)
(***************************************************************************)
SEED_INTEGER == 1
SEED_COMPOSITION == 3

HYPERSPHERE_RADIUS == FromInt(1)
M_PI == DblOf(105414357, 4467992, -51)
GOLDEN_RATIO == DblOf(108584422, 60290216, -52)
GOLDEN_ANGLE == FDiv(FMul(FromInt(2), M_PI), FMul(GOLDEN_RATIO, GOLDEN_RATIO))
PSI_SEGMENT_SIZE == FDiv(M_PI, FromInt(16))

\* the literals 0.5, 1.5, 0.25, 0.75, 0.1, 0.001 and the tolerance 1e-10
Half == FDiv(FromInt(1), FromInt(2))
OneAndHalf == FDiv(FromInt(3), FromInt(2))
Quarter == FDiv(FromInt(1), FromInt(4))
ThreeQuarters == FDiv(FromInt(3), FromInt(4))
Tenth == DblOf(107374182, 26843546, -56)
Milli == DblOf(68719476, 49392124, -62)
SphereTolerance == DblOf(115292150, 30916027, -86)

get_category(codepoint) ==
    IF codepoint <= 31 \/ codepoint = 127 THEN 0
    ELSE IF codepoint >= 48 /\ codepoint <= 57 THEN 1
    ELSE IF codepoint >= 65 /\ codepoint <= 90 THEN 2
    ELSE IF codepoint >= 97 /\ codepoint <= 122 THEN 3
    ELSE IF codepoint >= 32 /\ codepoint <= 126 THEN 4
    ELSE IF codepoint >= 128 /\ codepoint <= 591 THEN 5
    ELSE IF codepoint >= 880 /\ codepoint <= 1023 THEN 6
    ELSE IF codepoint >= 1024 /\ codepoint <= 1279 THEN 7
    ELSE IF codepoint >= 19968 /\ codepoint <= 40959 THEN 8
    ELSE IF codepoint >= 128512 THEN 9
    ELSE 10

\* uint64_t from its 16 hexadecimal digits, most significant first
U64FromDigits(digits) == [i \in 0..15 |-> digits[16 - i]]

\* (double) of the hexadecimal digits from..to of a uint64_t, taken as an
\* unsigned integer (fewer than 53 bits)
DigitsToDouble(v, from, to) ==
    Dbl(FALSE, { 4 * (q[1] - from) + q[2] :
                   q \in { r \in (from..to) \X (0..3) : BitAt(v[r[1]], r[2]) = 1 } })

LibmSin(a) ==
    CASE a = Dbl(FALSE, {})
         -> Dbl(FALSE, {})
      [] a = Dbl(FALSE, MagOf(68719476, 49392124, -62))
         -> Dbl(FALSE, MagOf(68719465, 18975330, -62))
      [] a = Dbl(FALSE, MagOf(130658869, 27712000, -57))
         -> Dbl(FALSE, MagOf(130578271, 14557095, -57))
      [] a = Dbl(FALSE, MagOf(67664678, 27359488, -56))
         -> Dbl(FALSE, MagOf(67619902, 2813210, -56))
      [] a = Dbl(FALSE, MagOf(105414357, 4467992, -56))
         -> Dbl(FALSE, MagOf(105245103, 2733100, -56))
      [] a = Dbl(FALSE, MagOf(105441132, 21023407, -56))
         -> Dbl(FALSE, MagOf(105271749, 21781209, -56))
      [] a = Dbl(FALSE, MagOf(114652870, 64766464, -55))
         -> Dbl(FALSE, MagOf(113783363, 20840368, -55))
      [] a = Dbl(FALSE, MagOf(71803997, 5677312, -54))
         -> Dbl(FALSE, MagOf(70950777, 8507219, -54))
      [] a = Dbl(FALSE, MagOf(79063772, 7322255, -54))
         -> Dbl(FALSE, MagOf(77925574, 43511107, -54))
      [] a = Dbl(FALSE, MagOf(131771372, 20121083, -54))
         -> Dbl(FALSE, MagOf(126542619, 28809322, -54))
      [] a = Dbl(FALSE, MagOf(70876598, 36726240, -53))
         -> Dbl(FALSE, MagOf(67628118, 23888876, -53))
      [] a = Dbl(FALSE, MagOf(105414357, 4467992, -53))
         -> Dbl(FALSE, MagOf(94906265, 41892812, -53))
      [] a = Dbl(FALSE, MagOf(105414457, 40106878, -53))
         -> Dbl(FALSE, MagOf(94906336, 47675461, -53))
      [] a = Dbl(FALSE, MagOf(105427778, 56329722, -53))
         -> Dbl(FALSE, MagOf(94915755, 52094385, -53))
      [] a = Dbl(FALSE, MagOf(110121013, 35453696, -53))
         -> Dbl(FALSE, MagOf(98175344, 20759289, -53))
      [] a = Dbl(FALSE, MagOf(133569790, 25051200, -53))
         -> Dbl(FALSE, MagOf(112588926, 60247664, -53))
      [] a = Dbl(FALSE, MagOf(79450248, 9876320, -52))
         -> Dbl(FALSE, MagOf(124297017, 7938272, -53))
      [] a = Dbl(FALSE, MagOf(85661511, 51886310, -52))
         -> Dbl(FALSE, MagOf(128445523, 40950455, -53))
      [] a = Dbl(FALSE, MagOf(85662328, 49287001, -52))
         -> Dbl(FALSE, MagOf(128445997, 41318592, -53))
      [] a = Dbl(FALSE, MagOf(91030826, 2220960, -52))
         -> Dbl(FALSE, MagOf(131146670, 29355991, -53))
      [] a = Dbl(FALSE, MagOf(96375076, 712264, -52))
         -> Dbl(FALSE, MagOf(133002014, 45079621, -53))
      [] a = Dbl(FALSE, MagOf(101908738, 4050464, -52))
         -> Dbl(FALSE, MagOf(134034643, 56082789, -53))
      [] a = Dbl(FALSE, MagOf(104590807, 28611701, -52))
         -> Dbl(FALSE, MagOf(134207621, 43790216, -53))
      [] a = Dbl(FALSE, MagOf(105311413, 24058893, -52))
         -> Dbl(FALSE, MagOf(134217570, 5795558, -53))
      [] a = Dbl(FALSE, MagOf(105414357, 4467992, -52))
         -> Dbl(FALSE, MagOf(67108864, 0, -52))
      [] a = Dbl(FALSE, MagOf(110589042, 6425408, -52))
         -> Dbl(FALSE, MagOf(133818911, 55703532, -53))
      [] a = Dbl(FALSE, MagOf(112015509, 34926437, -52))
         -> Dbl(FALSE, MagOf(133568930, 6540629, -53))
      [] a = Dbl(FALSE, MagOf(114717233, 42905584, -52))
         -> Dbl(FALSE, MagOf(132930192, 65810302, -53))
      [] a = Dbl(FALSE, MagOf(124257283, 26878176, -52))
         -> Dbl(FALSE, MagOf(128961651, 27295369, -53))
      [] a = Dbl(FALSE, MagOf(125181011, 43001077, -52))
         -> Dbl(FALSE, MagOf(128437508, 34107357, -53))
      [] a = Dbl(FALSE, MagOf(125186295, 35931022, -52))
         -> Dbl(FALSE, MagOf(128434440, 14926094, -53))
      [] a = Dbl(FALSE, MagOf(69107698, 25209128, -51))
         -> Dbl(FALSE, MagOf(118502091, 1465788, -53))
      [] a = Dbl(FALSE, MagOf(69180115, 26987857, -51))
         -> Dbl(FALSE, MagOf(118365803, 26396631, -53))
      [] a = Dbl(FALSE, MagOf(69180438, 15677901, -51))
         -> Dbl(FALSE, MagOf(118365194, 39936104, -53))
      [] a = Dbl(FALSE, MagOf(77884081, 54872200, -51))
         -> Dbl(FALSE, MagOf(98175403, 63863417, -53))
      [] a = Dbl(FALSE, MagOf(79060767, 53682642, -51))
         -> Dbl(FALSE, MagOf(94906265, 41892813, -53))
      [] a = Dbl(FALSE, MagOf(79064123, 16316427, -51))
         -> Dbl(FALSE, MagOf(94896774, 35109586, -53))
      [] a = Dbl(FALSE, MagOf(79201696, 27805464, -51))
         -> Dbl(FALSE, MagOf(94506823, 27413899, -53))
      [] a = Dbl(FALSE, MagOf(79285902, 66337984, -51))
         -> Dbl(FALSE, MagOf(94267355, 46098831, -53))
      [] a = Dbl(FALSE, MagOf(80529402, 66735099, -51))
         -> Dbl(FALSE, MagOf(90662772, 39046163, -53))
      [] a = Dbl(FALSE, MagOf(81231739, 36932270, -51))
         -> Dbl(FALSE, MagOf(88571539, 41029570, -53))
      [] a = Dbl(FALSE, MagOf(82412855, 37361766, -51))
         -> Dbl(FALSE, MagOf(84967703, 7951411, -53))
      [] a = Dbl(FALSE, MagOf(84785303, 11937272, -51))
         -> Dbl(FALSE, MagOf(77415446, 14934924, -53))
      [] a = Dbl(FALSE, MagOf(87695207, 28839504, -51))
         -> Dbl(FALSE, MagOf(67628118, 23893576, -53))
      [] a = Dbl(FALSE, MagOf(92174343, 37310512, -51))
         -> Dbl(FALSE, MagOf(103192872, 5687376, -54))
      [] a = Dbl(FALSE, MagOf(98248552, 42362232, -51))
         -> Dbl(FALSE, MagOf(113783363, 20854383, -55))
      [] a = Dbl(FALSE, MagOf(105362885, 14263442, -51))
         -> Dbl(FALSE, MagOf(105414315, 48647242, -62))
      [] a = Dbl(FALSE, MagOf(105380802, 42585827, -51))
         -> Dbl(FALSE, MagOf(68719465, 18975387, -62))
      [] a = Dbl(FALSE, MagOf(105414357, 4467992, -51))
         -> Dbl(FALSE, MagOf(74025356, 51665927, -105))
      [] a = Dbl(FALSE, MagOf(130299311, 9309748, -51))
         -> Dbl(TRUE, MagOf(90662772, 39046158, -53))
      [] a = Dbl(FALSE, MagOf(68094402, 62775168, -50))
         -> Dbl(TRUE, MagOf(106551673, 31256954, -53))
      [] a = Dbl(FALSE, MagOf(69372551, 59149632, -50))
         -> Dbl(TRUE, MagOf(112454387, 4488117, -53))
      [] a = Dbl(FALSE, MagOf(78360750, 40815073, -50))
         -> Dbl(TRUE, MagOf(134100914, 7127355, -53))
      [] a = Dbl(FALSE, MagOf(80591926, 28579392, -50))
         -> Dbl(TRUE, MagOf(133659156, 13675452, -53))
      [] a = Dbl(FALSE, MagOf(84557051, 11019456, -50))
         -> Dbl(TRUE, MagOf(127079496, 14014349, -53))
      [] a = Dbl(FALSE, MagOf(86867403, 1852208, -50))
         -> Dbl(TRUE, MagOf(119947932, 46749402, -53))
      [] a = Dbl(FALSE, MagOf(89942566, 43624384, -50))
         -> Dbl(TRUE, MagOf(106961704, 55947215, -53))
      [] a = Dbl(FALSE, MagOf(100926607, 16696040, -50))
         -> Dbl(TRUE, MagOf(70950777, 8507717, -54))

LibmCos(a) ==
    CASE a = Dbl(FALSE, {})
         -> Dbl(FALSE, MagOf(67108864, 0, -52))
      [] a = Dbl(FALSE, MagOf(68719476, 49392124, -62))
         -> Dbl(FALSE, MagOf(134217660, 59803500, -53))
      [] a = Dbl(FALSE, MagOf(130658869, 27712000, -57))
         -> Dbl(FALSE, MagOf(133969378, 7471272, -53))
      [] a = Dbl(FALSE, MagOf(67664678, 27359488, -56))
         -> Dbl(FALSE, MagOf(133951311, 60522830, -53))
      [] a = Dbl(FALSE, MagOf(105414357, 4467992, -56))
         -> Dbl(FALSE, MagOf(133571432, 64038182, -53))
      [] a = Dbl(FALSE, MagOf(105441132, 21023407, -56))
         -> Dbl(FALSE, MagOf(133571104, 57618012, -53))
      [] a = Dbl(FALSE, MagOf(114652870, 64766464, -55))
         -> Dbl(FALSE, MagOf(131168718, 17223063, -53))
      [] a = Dbl(FALSE, MagOf(71803997, 5677312, -54))
         -> Dbl(FALSE, MagOf(129444564, 43188099, -53))
      [] a = Dbl(FALSE, MagOf(79063772, 7322255, -54))
         -> Dbl(FALSE, MagOf(128437921, 42481954, -53))
      [] a = Dbl(FALSE, MagOf(131771372, 20121083, -54))
         -> Dbl(FALSE, MagOf(118368660, 58474923, -53))
      [] a = Dbl(FALSE, MagOf(70876598, 36726240, -53))
         -> Dbl(FALSE, MagOf(115934620, 743311, -53))
      [] a = Dbl(FALSE, MagOf(105414357, 4467992, -53))
         -> Dbl(FALSE, MagOf(94906265, 41892813, -53))
      [] a = Dbl(FALSE, MagOf(105414457, 40106878, -53))
         -> Dbl(FALSE, MagOf(94906194, 36106591, -53))
      [] a = Dbl(FALSE, MagOf(105427778, 56329722, -53))
         -> Dbl(FALSE, MagOf(94896774, 35109587, -53))
      [] a = Dbl(FALSE, MagOf(110121013, 35453696, -53))
         -> Dbl(FALSE, MagOf(91520491, 2325895, -53))
      [] a = Dbl(FALSE, MagOf(133569790, 25051200, -53))
         -> Dbl(FALSE, MagOf(73062521, 34268504, -53))
      [] a = Dbl(FALSE, MagOf(79450248, 9876320, -52))
         -> Dbl(FALSE, MagOf(101284748, 823932, -54))
      [] a = Dbl(FALSE, MagOf(85661511, 51886310, -52))
         -> Dbl(FALSE, MagOf(77875438, 22505676, -54))
      [] a = Dbl(FALSE, MagOf(85662328, 49287001, -52))
         -> Dbl(FALSE, MagOf(77872311, 1500668, -54))
      [] a = Dbl(FALSE, MagOf(91030826, 2220960, -52))
         -> Dbl(FALSE, MagOf(114189270, 29197377, -55))
      [] a = Dbl(FALSE, MagOf(96375076, 712264, -52))
         -> Dbl(FALSE, MagOf(72095781, 2722427, -55))
      [] a = Dbl(FALSE, MagOf(101908738, 4050464, -52))
         -> Dbl(FALSE, MagOf(112128796, 1601796, -57))
      [] a = Dbl(FALSE, MagOf(104590807, 28611701, -52))
         -> Dbl(FALSE, MagOf(105411708, 6760854, -59))
      [] a = Dbl(FALSE, MagOf(105311413, 24058893, -52))
         -> Dbl(FALSE, MagOf(105414315, 48645936, -62))
      [] a = Dbl(FALSE, MagOf(105414357, 4467992, -52))
         -> Dbl(FALSE, MagOf(74025356, 51665927, -106))
      [] a = Dbl(FALSE, MagOf(110589042, 6425408, -52))
         -> Dbl(TRUE, MagOf(82712938, 15441863, -56))
      [] a = Dbl(FALSE, MagOf(112015509, 34926437, -52))
         -> Dbl(TRUE, MagOf(105448200, 41757251, -56))
      [] a = Dbl(FALSE, MagOf(114717233, 42905584, -52))
         -> Dbl(TRUE, MagOf(74184882, 63500713, -55))
      [] a = Dbl(FALSE, MagOf(124257283, 26878176, -52))
         -> Dbl(TRUE, MagOf(74385239, 55319074, -54))
      [] a = Dbl(FALSE, MagOf(125181011, 43001077, -52))
         -> Dbl(TRUE, MagOf(77928298, 17884191, -54))
      [] a = Dbl(FALSE, MagOf(125186295, 35931022, -52))
         -> Dbl(TRUE, MagOf(77948523, 25425604, -54))
      [] a = Dbl(FALSE, MagOf(69107698, 25209128, -51))
         -> Dbl(TRUE, MagOf(126042103, 817197, -54))
      [] a = Dbl(FALSE, MagOf(69180115, 26987857, -51))
         -> Dbl(TRUE, MagOf(126553310, 30270617, -54))
      [] a = Dbl(FALSE, MagOf(69180438, 15677901, -51))
         -> Dbl(TRUE, MagOf(126555588, 4709877, -54))
      [] a = Dbl(FALSE, MagOf(77884081, 54872200, -51))
         -> Dbl(TRUE, MagOf(91520427, 3722115, -53))
      [] a = Dbl(FALSE, MagOf(79060767, 53682642, -51))
         -> Dbl(TRUE, MagOf(94906265, 41892812, -53))
      [] a = Dbl(FALSE, MagOf(79064123, 16316427, -51))
         -> Dbl(TRUE, MagOf(94915755, 52094386, -53))
      [] a = Dbl(FALSE, MagOf(79201696, 27805464, -51))
         -> Dbl(TRUE, MagOf(95304033, 46703713, -53))
      [] a = Dbl(FALSE, MagOf(79285902, 66337984, -51))
         -> Dbl(TRUE, MagOf(95540903, 5345736, -53))
      [] a = Dbl(FALSE, MagOf(80529402, 66735099, -51))
         -> Dbl(TRUE, MagOf(98967975, 34465843, -53))
      [] a = Dbl(FALSE, MagOf(81231739, 36932270, -51))
         -> Dbl(TRUE, MagOf(100843844, 2546743, -53))
      [] a = Dbl(FALSE, MagOf(82412855, 37361766, -51))
         -> Dbl(TRUE, MagOf(103898450, 7701950, -53))
      [] a = Dbl(FALSE, MagOf(84785303, 11937272, -51))
         -> Dbl(TRUE, MagOf(109641448, 23292266, -53))
      [] a = Dbl(FALSE, MagOf(87695207, 28839504, -51))
         -> Dbl(TRUE, MagOf(115934620, 740569, -53))
      [] a = Dbl(FALSE, MagOf(92174343, 37310512, -51))
         -> Dbl(TRUE, MagOf(123904020, 33863899, -53))
      [] a = Dbl(FALSE, MagOf(98248552, 42362232, -51))
         -> Dbl(TRUE, MagOf(131168718, 17222303, -53))
      [] a = Dbl(FALSE, MagOf(105362885, 14263442, -51))
         -> Dbl(TRUE, MagOf(134217570, 5795558, -53))
      [] a = Dbl(FALSE, MagOf(105380802, 42585827, -51))
         -> Dbl(TRUE, MagOf(134217660, 59803500, -53))
      [] a = Dbl(FALSE, MagOf(105414357, 4467992, -51))
         -> Dbl(TRUE, MagOf(67108864, 0, -52))
      [] a = Dbl(FALSE, MagOf(130299311, 9309748, -51))
         -> Dbl(TRUE, MagOf(98967975, 34465847, -53))
      [] a = Dbl(FALSE, MagOf(68094402, 62775168, -50))
         -> Dbl(TRUE, MagOf(81615803, 37738213, -53))
      [] a = Dbl(FALSE, MagOf(69372551, 59149632, -50))
         -> Dbl(TRUE, MagOf(73269429, 51707609, -53))
      [] a = Dbl(FALSE, MagOf(78360750, 40815073, -50))
         -> Dbl(TRUE, MagOf(89576204, 33569937, -57))
      [] a = Dbl(FALSE, MagOf(80591926, 28579392, -50))
         -> Dbl(FALSE, MagOf(97858174, 4600593, -56))
      [] a = Dbl(FALSE, MagOf(84557051, 11019456, -50))
         -> Dbl(FALSE, MagOf(86375926, 7307204, -54))
      [] a = Dbl(FALSE, MagOf(86867403, 1852208, -50))
         -> Dbl(FALSE, MagOf(120447365, 19420716, -54))
      [] a = Dbl(FALSE, MagOf(89942566, 43624384, -50))
         -> Dbl(FALSE, MagOf(81077692, 28352466, -53))
      [] a = Dbl(FALSE, MagOf(100926607, 16696040, -50))
         -> Dbl(FALSE, MagOf(129444564, 43188031, -53))

\* x moved by k units in the last place
Ulps(x, k) ==
    IF x.mag = {} \/ k = 0 THEN x
    ELSE IF k > 0 THEN Dbl(x.neg, MagAdd(x.mag, { MaxBit(x.mag) - (DBL_MANT_DIG - 1) }))
    ELSE Dbl(x.neg, MagSub(x.mag, { MaxBit(x.mag) - (DBL_MANT_DIG - 1) }))

\* seed.value.float_bits = bits with the sign bit of bits copied into the
\* upper word
SignExtend32(bits) ==
    [i \in 0..15 |->
        IF i < 7 THEN (bits.low \div Pow2(4 * i)) % 16
        ELSE IF i = 7 THEN (bits.low \div Pow2(28)) + 8 * bits.top
        ELSE 15 * bits.top]

\* seed.value.float_bits = bits for a uint32_t bits
ZeroExtend32(bits) ==
    [i \in 0..15 |->
        IF i < 7 THEN (bits.low \div Pow2(4 * i)) % 16
        ELSE IF i = 7 THEN (bits.low \div Pow2(28)) + 8 * bits.top
        ELSE 0]

\* the AtomSeed hart_ingest_safetensor builds for an element
TensorSeed(bits) == [type |-> SEED_FLOAT_BITS, float_bits |-> ZeroExtend32(bits)]

\* (bits >> 63) & 0x1, (bits >> 52) & 0x7FF, mantissa >> 32 and
\* mantissa & 0xFFFFFFFF
FloatBitsFields(bits) ==
    [sign |-> bits[15] \div 8,
     exponent |-> (bits[15] % 8) * 256 + bits[14] * 16 + bits[13],
     mantissa_high |-> DigitsToDouble(bits, 8, 12),
     mantissa_low |-> DigitsToDouble(bits, 0, 7)]

\* psi, theta, phi at the end of the switch
SeedAngles(seed) ==
    IF seed.type = SEED_UNICODE
    THEN LET cp == seed.codepoint
             category == get_category(cp)
             psi0 == FMul(FAdd(FromInt(category), Half), PSI_SEGMENT_SIZE)
             index_in_cat == cp % 10000
             perturb == FDiv(FromInt(cp % 1000), FromInt(100000))
         IN  [psi |-> FAdd(psi0, FMul(FMul(perturb, PSI_SEGMENT_SIZE), Tenth)),
              theta |-> FMod(FMul(FromInt(index_in_cat), GOLDEN_ANGLE), M_PI),
              phi |-> FMod(FMul(FMul(FromInt(cp), GOLDEN_ANGLE), OneAndHalf),
                           FMul(FromInt(2), M_PI))]
    ELSE IF seed.type = SEED_INTEGER
    THEN LET val == seed.integer
             is_negative == val < 0
             abs_val == IF is_negative THEN -val ELSE val
             psi0 == IF is_negative THEN FMul(M_PI, Quarter) ELSE FMul(M_PI, ThreeQuarters)
         IN  [psi |-> FAdd(psi0, FDiv(FromInt(abs_val % 1000), FromInt(10000))),
              theta |-> FMod(FMul(FromInt(abs_val), GOLDEN_ANGLE), M_PI),
              phi |-> FMod(FMul(FMul(FromInt(abs_val), GOLDEN_ANGLE), GOLDEN_RATIO),
                           FMul(FromInt(2), M_PI))]
    ELSE LET f == FloatBitsFields(seed.float_bits)
             phi0 == FMul(FMul(FDiv(f.mantissa_low, DigitsToDouble([i \in 0..15 |-> 15], 0, 7)),
                               FromInt(2)), M_PI)
         IN  [psi |-> FMul(FDiv(FromInt(f.exponent), FromInt(2048)), M_PI),
              theta |-> FMul(FDiv(f.mantissa_high, FromInt(1048575)), M_PI),
              phi |-> IF f.sign # 0 THEN FAdd(phi0, M_PI) ELSE phi0]

\* if (a < 0.001) a = 0.001; if (a > M_PI - 0.001) a = M_PI - 0.001
ClampAngle(a) ==
    LET low == IF FLess(a, Milli) THEN Milli ELSE a
    IN  IF FLess(FSub(M_PI, Milli), low) THEN FSub(M_PI, Milli) ELSE low

\* while (phi >= 2.0 * M_PI) phi -= 2.0 * M_PI; phi is never negative
RECURSIVE WrapPhi(_)
WrapPhi(phi) ==
    IF FLess(phi, FMul(FromInt(2), M_PI)) THEN phi
    ELSE WrapPhi(FSub(phi, FMul(FromInt(2), M_PI)))

\* the angles the conversion uses
ClampedAngles(seed) ==
    LET a == SeedAngles(seed)
    IN  [psi |-> ClampAngle(a.psi), theta |-> ClampAngle(a.theta), phi |-> WrapPhi(a.phi)]

\* p.m = R * cos_psi, and the same with the sine taken instead
CartesianM_Sine(R, sin_psi, cos_psi) == FMul(R, sin_psi)

CartesianM(R, sin_psi, cos_psi) == FMul(R, cos_psi)

\* Point4D of a seed; err.s and err.c are the errors of sin and cos in
\* units in the last place
compute_coords_from_seed(seed, err) ==
    IF seed.type \notin {SEED_UNICODE, SEED_INTEGER, SEED_FLOAT_BITS}
    THEN [x |-> PlusZero, y |-> PlusZero, z |-> PlusZero, m |-> HYPERSPHERE_RADIUS]
    ELSE CHOOSE point \in
           { LET R == HYPERSPHERE_RADIUS
                 sin_psi == Ulps(LibmSin(a.psi), err.s)
                 cos_psi == Ulps(LibmCos(a.psi), err.c)
                 sin_theta == Ulps(LibmSin(a.theta), err.s)
                 cos_theta == Ulps(LibmCos(a.theta), err.c)
                 sin_phi == Ulps(LibmSin(a.phi), err.s)
                 cos_phi == Ulps(LibmCos(a.phi), err.c)
             IN  [x |-> FMul(FMul(FMul(R, sin_psi), sin_theta), cos_phi),
                  y |-> FMul(FMul(FMul(R, sin_psi), sin_theta), sin_phi),
                  z |-> FMul(FMul(R, sin_psi), cos_theta),
                  m |-> CartesianM(R, sin_psi, cos_psi)] :
                 a \in {ClampedAngles(seed)} } : TRUE

verify_on_sphere(p, tolerance) ==
    LET sum_squares == FAdd(FAdd(FAdd(FMul(p.x, p.x), FMul(p.y, p.y)), FMul(p.z, p.z)),
                            FMul(p.m, p.m))
        expected == FMul(HYPERSPHERE_RADIUS, HYPERSPHERE_RADIUS)
    IN  FLess(FAbs(FSub(sum_squares, expected)), tolerance)

LibmErrors == {-1, 0, 1}

SphereSeeds ==
    { [type |-> SEED_UNICODE, codepoint |-> 0],
      [type |-> SEED_UNICODE, codepoint |-> 57],
      [type |-> SEED_UNICODE, codepoint |-> 65],
      [type |-> SEED_UNICODE, codepoint |-> 127],
      [type |-> SEED_UNICODE, codepoint |-> 999],
      [type |-> SEED_UNICODE, codepoint |-> 937],
      [type |-> SEED_UNICODE, codepoint |-> 19968],
      [type |-> SEED_UNICODE, codepoint |-> 55295],
      [type |-> SEED_UNICODE, codepoint |-> 57344],
      [type |-> SEED_UNICODE, codepoint |-> 128512],
      [type |-> SEED_UNICODE, codepoint |-> 1114111],
      [type |-> SEED_INTEGER, integer |-> 0],
      [type |-> SEED_INTEGER, integer |-> 1],
      [type |-> SEED_INTEGER, integer |-> -1],
      [type |-> SEED_INTEGER, integer |-> 42],
      [type |-> SEED_INTEGER, integer |-> -1000],
      [type |-> SEED_INTEGER, integer |-> 999],
      [type |-> SEED_INTEGER, integer |-> 2147483647],
      [type |-> SEED_FLOAT_BITS, float_bits |-> U64FromDigits(<<3, 15, 15, 0, 0, 0, 0, 0, 0, 0, 0, 0, 0, 0, 0, 0>>)],
      [type |-> SEED_FLOAT_BITS, float_bits |-> U64FromDigits(<<12, 0, 0, 4, 0, 0, 0, 0, 0, 0, 0, 0, 0, 0, 0, 0>>)],
      [type |-> SEED_FLOAT_BITS, float_bits |-> U64FromDigits(<<15, 15, 15, 15, 15, 15, 15, 15, 15, 15, 15, 15, 15, 15, 15, 15>>)],
      [type |-> SEED_COMPOSITION] }
    \cup { TensorSeed(bits) : bits \in F32Samples }

SphereInit ==
    /\ \E seed \in SphereSeeds :
         hx = [phase |-> "seed", seed |-> seed]
    /\ hc = Idle /\ simd = Idle
    /\ ing = Idle /\ db = Idle /\ pending = <<>>

\* p = compute_coords_from_seed(&seed)
ProjectSeed ==
    /\ hx.phase = "seed"
    /\ \E s \in LibmErrors, c \in LibmErrors :
         hx' = [phase |-> "projected", seed |-> hx.seed, err |-> <<s, c>>,
                p |-> compute_coords_from_seed(hx.seed, [s |-> s, c |-> c])]
    /\ UNCHANGED <<hashVars, ingestVars, simdVars>>

\* verify_on_sphere(&p, 1e-10)
VerifyOnSphere ==
    /\ hx.phase = "projected"
    /\ hx' = [phase |-> "verified", seed |-> hx.seed, err |-> hx.err, p |-> hx.p,
              on_sphere |-> verify_on_sphere(hx.p, SphereTolerance)]
    /\ UNCHANGED <<hashVars, ingestVars, simdVars>>

SphereNext == ProjectSeed \/ VerifyOnSphere

SpecSphere == SphereInit /\ [][SphereNext]_vars

\* x^2 + y^2 + z^2 + m^2 of a point, exactly
SumOfSquares(p) ==
    MagAdd(MagAdd(MagMul(p.x.mag, p.x.mag), MagMul(p.y.mag, p.y.mag)),
           MagAdd(MagMul(p.z.mag, p.z.mag), MagMul(p.m.mag, p.m.mag)))

\* |s - 1| < 2^-34, which is below 10^-10
NearOne(s) ==
    IF MagLess(s, {0}) THEN MagLess(MagSub({0}, s), {-34})
    ELSE MagLess(MagSub(s, {0}), {-34})

F16Patterns ==
    { sign * 32768 + exp * 1024 + mant :
        sign \in {0, 1}, exp \in {0, 1, 14, 15, 30, 31}, mant \in {0, 1, 512, 682, 1023} }

\* the float patterns of the elements: F32 samples and converted halves
ElementBits == F32Samples \cup { F16ToF32(h) : h \in F16Patterns }

ElementInit ==
    /\ \E bits \in ElementBits :
         hx = [phase |-> "element", bits |-> bits]
    /\ hc = Idle /\ simd = Idle
    /\ ing = Idle /\ db = Idle /\ pending = <<>>

\* seed.type = SEED_FLOAT_BITS; seed.value.float_bits = bits
BuildElementSeed ==
    /\ hx.phase = "element"
    /\ hx' = [phase |-> "seeded", bits |-> hx.bits, seed |-> TensorSeed(hx.bits)]
    /\ UNCHANGED <<hashVars, ingestVars, simdVars>>

\* compute_coords_from_seed(&seed), up to the clamped angles
ElementAngles ==
    /\ hx.phase = "seeded"
    /\ hx' = [phase |-> "angles", bits |-> hx.bits, seed |-> hx.seed,
              angles |-> ClampedAngles(hx.seed)]
    /\ UNCHANGED <<hashVars, ingestVars, simdVars>>

ElementNext == BuildElementSeed \/ ElementAngles

SpecElement == ElementInit /\ [][ElementNext]_vars

\* C28: a FloatBits seed built by hart_ingest_safetensor has the sign bit,
\* the exponent field and the mantissa bits 32..51 all zero, and psi and
\* theta take the same clamped value 0.001 for every element.
C28_TensorSeedLowWord ==
    /\ hx.phase \in {"seeded", "angles"} =>
         LET f == FloatBitsFields(hx.seed.float_bits)
         IN  /\ hx.seed.type = SEED_FLOAT_BITS
             /\ f.sign = 0 /\ f.exponent = 0 /\ f.mantissa_high = PlusZero
    /\ hx.phase = "angles" =>
         /\ hx.angles.psi = Milli
         /\ hx.angles.theta = Milli

\* a negative element: bit 31 of the pattern is set, phi is not 0
C28_Witness ==
    /\ hx.phase = "angles"
    /\ hx.bits.top = 1
    /\ hx.angles.psi = Milli /\ hx.angles.theta = Milli
    /\ hx.angles.phi # PlusZero

(***************************************************************************)
(* Sparsity accounting of hart_ingest_safetensor.                          *)
(***************************************************************************)

\* the fractions <<n1, d1>> and <<n2, d2>> are the same number
SameFraction(a, b) == a[1] * b[2] = b[1] * a[2]

TensorCallbackMade ==
    /\ ing'.fn = "tensor"
    /\ ing'.callbacks # <<>>
    /\ \/ ing.fn # "tensor"
       \/ Len(ing'.callbacks) > Len(ing.callbacks)

\* C26: at every progress callback made by hart_ingest_safetensor, and in
\* stored_values of the final result, the reported count equals the number
\* of records that have been written to the store so far by this call.
C26_RecordsWritten ==
    [][ /\ TensorCallbackMade =>
             ing'.callbacks[Len(ing'.callbacks)].written = Len(db'.table)
        /\ (ing'.fn = "tensor" /\ ing'.phase = "returned" /\ ing'.ret = HART_OK) =>
             ing'.result.stored_values = Len(db'.table)
      ]_vars

(***************************************************************************)
(* The sampling pass of hart_ingest_safetensor (target_sparsity_percent).  *)
(* target_sparsity_percent is a float holding a whole number of percent:   *)
(* samples.size() * target is then exact in float, and the truncated       *)
(* double quotient by 100.0 is the integer quotient.  The file holds all   *)
(* the bytes its descriptors declare, and no sample is a NaN.              *)
(***************************************************************************)

\* the most floats sampled from one tensor ((int64_t)100000 in the source)
SampleLimit == 2

\* the most elements of one tensor of a sampled file
MaxTensorElems == 3

TargetPercents == {0, 25, 50, 100}

\* std::abs(v) on a float pattern
FloatAbs(v) == [top |-> 0, low |-> v.low]

\* the float whose four bytes are the halves h0, h1 in file order
FloatOfHalves(h0, h1) ==
    [top |-> h1 \div 32768, low |-> h0 + 65536 * (h1 % 32768)]

\* buf after fread(buf.data(), sizeof(float), sample_count, fp) at the
\* offset of a tensor holding `data`; bytes = data_offsets[1] - [0]
SampleBuffer(dtype, data) ==
    LET bytes == IF dtype = "F32" THEN 4 * Len(data) ELSE 2 * Len(data)
        quarter == bytes \div 4
        sample_count == IF quarter < SampleLimit THEN quarter ELSE SampleLimit
    IN  [k \in 1..sample_count |->
            IF dtype = "F32" THEN data[k]
            ELSE FloatOfHalves(data[2 * k - 1], data[2 * k])]

\* samples.push_back(std::abs(v)) for every v of buf
PushSamples(samples, buf) ==
    samples \o [k \in 1..Len(buf) |-> FloatAbs(buf[k])]

\* the sequence with x put before the first element that is not below it
InsertSorted(sorted, x) ==
    LET below == { k \in 1..Len(sorted) : sorted[k].low < x.low }
        n == Cardinality(below)
    IN  SubSeq(sorted, 1, n) \o <<x>> \o SubSeq(sorted, n + 1, Len(sorted))

RECURSIVE SortSamples(_)
\* std::sort(samples.begin(), samples.end()) on non-negative floats
SortSamples(samples) ==
    IF samples = <<>> THEN <<>>
    ELSE InsertSorted(SortSamples(Tail(samples)), Head(samples))

\* (size_t)(samples.size() * target_sparsity_percent / 100.0)
PercentileIndex(n, target) == (n * target) \div 100

\* if (idx < samples.size()) actual_threshold = samples[idx];
PickThreshold(sorted, target, sparsity_threshold) ==
    LET idx == PercentileIndex(Len(sorted), target)
    IN  IF idx < Len(sorted) THEN sorted[idx + 1] ELSE sparsity_threshold

ThresholdInit ==
    /\ \E target \in TargetPercents, th \in Thresholds, n \in 0..MaxTensors :
         ing = [fn |-> "threshold", phase |-> "parsed",
                target_sparsity_percent |-> target,
                sparsity_threshold |-> th,
                tensor_count |-> n, sampled |-> 0,
                actual_threshold |-> th,
                samples |-> <<>>, counts |-> <<>>]
    /\ db = NewDb(FALSE) /\ pending = <<>>
    /\ hx = Idle /\ simd = Idle /\ hc = Idle

\* float actual_threshold = sparsity_threshold;
\* if (target_sparsity_percent > 0)
ThresholdBegin ==
    /\ ing.phase = "parsed"
    /\ ing' = [ing EXCEPT !.phase = IF ing.target_sparsity_percent > 0
                                    THEN "sampling" ELSE "pass"]
    /\ UNCHANGED <<db, pending, hilbertVars, simdVars, hashVars>>

\* one pass of for (auto& [name, info] : header.tensors) of the sampling
\* loop; the descriptor and the payload are drawn when the loop reaches them
SampleTensor ==
    /\ ing.phase = "sampling"
    /\ ing.sampled < ing.tensor_count
    /\ \E dtype \in {"F32", "F16", "I64"}, n \in 0..MaxTensorElems :
         \E data \in [1..n -> IF dtype = "F32" THEN F32Samples ELSE F16Samples] :
           IF dtype \notin {"F32", "F16"}
           THEN ing' = [ing EXCEPT !.sampled = @ + 1]
           ELSE LET buf == SampleBuffer(dtype, data)
                IN  ing' = [ing EXCEPT
                              !.sampled = @ + 1,
                              !.samples = PushSamples(@, buf),
                              !.counts = Append(@, Len(buf))]
    /\ UNCHANGED <<db, pending, hilbertVars, simdVars, hashVars>>

\* after the loop: std::sort, idx, the threshold of the ingestion pass
SamplePick ==
    /\ ing.phase = "sampling"
    /\ ~(ing.sampled < ing.tensor_count)
    /\ ing' = [ing EXCEPT
                 !.samples = SortSamples(ing.samples),
                 !.phase = "pass"]
    /\ UNCHANGED <<db, pending, hilbertVars, simdVars, hashVars>>

\* the threshold is read from the sorted samples
SampleThreshold ==
    /\ ing.phase = "pass"
    /\ ing' = [ing EXCEPT
                 !.actual_threshold =
                     IF ing.target_sparsity_percent > 0
                     THEN PickThreshold(ing.samples, ing.target_sparsity_percent,
                                        ing.sparsity_threshold)
                     ELSE ing.sparsity_threshold,
                 !.phase = "threshold_set"]
    /\ UNCHANGED <<db, pending, hilbertVars, simdVars, hashVars>>

ThresholdNext == ThresholdBegin \/ SampleTensor \/ SamplePick \/ SampleThreshold

SpecThreshold == ThresholdInit /\ [][ThresholdNext]_vars

\* the samples are in ascending order
Ascending(samples) ==
    \A k \in 1..(Len(samples) - 1) : samples[k].low <= samples[k + 1].low

\* C27: whenever target_sparsity_percent > 0, the threshold used for the
\* ingestion pass is the element at index floor(n * target_sparsity_percent
\* / 100) of the ascending-sorted absolute values of the n sampled elements
\* (at most 100 000 per tensor), and it overrides the caller's
\* sparsity_threshold.  (A file without a sampled element is left aside.)
C27_TargetSparsityThreshold ==
    (/\ ing.phase = "threshold_set"
     /\ ing.target_sparsity_percent > 0
     /\ Len(ing.samples) > 0) =>
        LET n == Len(ing.samples)
            idx == (n * ing.target_sparsity_percent) \div 100
        IN  /\ \A k \in 1..Len(ing.counts) : ing.counts[k] <= SampleLimit
            /\ Ascending(ing.samples)
            /\ \A k \in 1..n : ing.samples[k].top = 0
            /\ idx < n
            /\ ing.actual_threshold = ing.samples[idx + 1]

(***************************************************************************)
(* hilbert_curve.cpp: the 32-bit Hilbert path.  A uint32_t is the set of   *)
(* the positions of its one bits; a key is the pair of its 64-bit halves   *)
(* as hexadecimal digits.  A call of hilbert_transform with an index d     *)
(* outside the array has undefined behaviour: the call is not followed     *)
(* any further (phase "out_of_bounds").                                    *)
(***************************************************************************)
DIMS == 4

BITS == 32

\* n ^ (n >> 1)
binary_to_gray(n) == BitXor(n, { i - 1 : i \in { j \in n : j >= 1 } })

\* b = g; while (g >>= 1) b ^= g;
gray_to_binary(g) ==
    { i \in 0..(BITS - 1) : Cardinality({ j \in g : j >= i }) % 2 = 1 }

\* 4294967295.0
UINT32_MAX_DBL == Dbl(FALSE, 0..(BITS - 1))

\* (uint32_t) of a double in [0, 2^32): the fraction is dropped
ToUint32(x) == { e \in x.mag : e >= 0 }

\* (double) of a uint32_t
FromUint32(n) == Dbl(FALSE, n)

\* (uint32_t)((c + 1.0) * 0.5 * 4294967295.0)
MapCoord32(c) == ToUint32(FMul(FMul(FAdd(c, One), Half), UINT32_MAX_DBL))

\* ((double)c / 4294967295.0) * 2.0 - 1.0
UnmapCoord32(c) ==
    FSub(FMul(FDiv(FromUint32(c), UINT32_MAX_DBL), Dbl(FALSE, {1})), One)

\* an index of uint32_t coords[DIMS]
InArray(d) == d \in 0..(DIMS - 1)

\* hilbert_transform(coords, b, d) for an index d inside the array
hilbert_transform(coords, b, d) ==
    LET xored == [i \in 0..(DIMS - 1) |->
                    IF i >= 1 THEN BitXor(coords[i], coords[0]) ELSE coords[i]]
        flip == 0..(b - 1)
    IN  [xored EXCEPT ![d] = BitXor(@, flip)]

\* bit b of each coordinate, coordinate d at bit d
ExtractBits(coords, b) ==
    (IF b \in coords[0] THEN 1 ELSE 0) + (IF b \in coords[1] THEN 2 ELSE 0)
    + (IF b \in coords[2] THEN 4 ELSE 0) + (IF b \in coords[3] THEN 8 ELSE 0)

\* hilbert[1] |= bits << bit_pos, or hilbert[0] |= bits << (bit_pos - 64)
AppendNibble(hilbert, b, bits) ==
    IF b * DIMS < 64
    THEN [high |-> hilbert.high, low |-> U64OrShifted(hilbert.low, bits, b * DIMS)]
    ELSE [high |-> U64OrShifted(hilbert.high, bits, b * DIMS - 64), low |-> hilbert.low]

\* (hilbert[1] >> bit_pos) & 0xF, or (hilbert[0] >> (bit_pos - 64)) & 0xF
KeyNibble(hilbert, b) ==
    IF b * DIMS < 64
    THEN U64Nibble(hilbert.low, b * DIMS)
    ELSE U64Nibble(hilbert.high, b * DIMS - 64)

\* coords[d] |= (1U << b) for every d whose bit of `bits` is set
SetBits(coords, b, bits) ==
    [d \in 0..(DIMS - 1) |->
        IF BitAt(bits, d) = 1 THEN coords[d] \cup {b} ELSE coords[d]]

\* -1, -0.5, 0, 0.25, 1
Coords32 == {Dbl(TRUE, {0}), Dbl(TRUE, {-1}), PlusZero, Dbl(FALSE, {-2}), One}

\* the sample keys, and keys all of whose digits are below 4
Keys32 ==
    SampleKeys
    \cup [high : {U64Zero, [i \in 0..15 |-> 3]},
          low : {[i \in 0..15 |-> i % 4], [i \in 0..15 |-> 2]}]

NoTransform == [called |-> FALSE, b |-> 0, d |-> 0]

Curve32Init ==
    /\ \/ \E x \in Coords32, y \in Coords32, z \in Coords32, m \in Coords32 :
            hx = [phase |-> "enc_entry", point |-> Vec4(x, y, z, m)]
       \/ \E k \in Keys32 :
            hx = [phase |-> "dec_loop", index |-> k,
                  coords |-> [d \in 0..(DIMS - 1) |-> {}],
                  b |-> BITS - 1, transform |-> NoTransform]
    /\ hc = Idle /\ simd = Idle
    /\ ing = Idle /\ db = Idle /\ pending = <<>>

Curve32Others == UNCHANGED <<hashVars, ingestVars, simdVars>>

\* hart_coords_to_hilbert up to the level loop: the mapping to uint32_t and
\* the Gray code
CoordsToHilbertEnter ==
    /\ hx.phase = "enc_entry"
    /\ hx' = [phase |-> "enc_loop", point |-> hx.point,
              coords |-> [d \in 0..(DIMS - 1) |->
                            binary_to_gray(MapCoord32(hx.point[d]))],
              hilbert |-> [high |-> U64Zero, low |-> U64Zero],
              b |-> BITS - 1, transform |-> NoTransform]
    /\ Curve32Others

\* one pass of the level loop of hart_coords_to_hilbert; after the pass of
\* b = 0 the key is stored in *out
CoordsToHilbertLevel ==
    /\ hx.phase = "enc_loop"
    /\ LET bits == ExtractBits(hx.coords, hx.b)
           appended == [hx EXCEPT !.hilbert = AppendNibble(@, hx.b, bits)]
       IN  IF hx.b > 0
           THEN IF InArray(bits)
                THEN hx' = [appended EXCEPT
                              !.coords = hilbert_transform(@, hx.b, bits),
                              !.transform = [called |-> TRUE, b |-> hx.b, d |-> bits],
                              !.b = @ - 1]
                ELSE hx' = [appended EXCEPT
                              !.transform = [called |-> TRUE, b |-> hx.b, d |-> bits],
                              !.phase = "out_of_bounds"]
           ELSE hx' = [appended EXCEPT !.phase = "encoded"]
    /\ Curve32Others

\* one pass of the level loop of hart_hilbert_to_coords
HilbertToCoordsLevel ==
    /\ hx.phase = "dec_loop"
    /\ hx.b >= 0
    /\ LET bits == KeyNibble(hx.index, hx.b)
       IN  IF hx.b < BITS - 1
           THEN IF InArray(bits)
                THEN hx' = [hx EXCEPT
                              !.coords = SetBits(hilbert_transform(@, hx.b + 1, bits),
                                                 hx.b, bits),
                              !.transform = [called |-> TRUE, b |-> hx.b + 1, d |-> bits],
                              !.b = @ - 1]
                ELSE hx' = [hx EXCEPT
                              !.transform = [called |-> TRUE, b |-> hx.b + 1, d |-> bits],
                              !.phase = "out_of_bounds"]
           ELSE hx' = [hx EXCEPT !.coords = SetBits(@, hx.b, bits), !.b = @ - 1]
    /\ Curve32Others

\* after the loop: gray_to_binary and the mapping back to [-1, 1]
HilbertToCoordsMap ==
    /\ hx.phase = "dec_loop"
    /\ hx.b < 0
    /\ hx' = [phase |-> "dec_mapped", index |-> hx.index, transform |-> hx.transform,
              out |-> [d \in 0..(DIMS - 1) |->
                         UnmapCoord32(gray_to_binary(hx.coords[d]))]]
    /\ Curve32Others

\* norm = sqrt(x*x + y*y + z*z + m*m)
Norm32(out) ==
    FSqrt(FAdd(FAdd(FAdd(FMul(out[0], out[0]), FMul(out[1], out[1])),
                    FMul(out[2], out[2])),
               FMul(out[3], out[3])))

\* the squared norm is computed
HilbertToCoordsNorm ==
    /\ hx.phase = "dec_mapped"
    /\ hx' = [phase |-> "dec_norm", index |-> hx.index, transform |-> hx.transform,
              out |-> hx.out, norm |-> Norm32(hx.out)]
    /\ Curve32Others

\* if (norm > 0.0) each coordinate is divided by norm
HilbertToCoordsRenormalize ==
    /\ hx.phase = "dec_norm"
    /\ hx' = [phase |-> "decoded", index |-> hx.index, transform |-> hx.transform,
              out |-> IF hx.norm.mag # {}
                      THEN [d \in 0..(DIMS - 1) |-> FDiv(hx.out[d], hx.norm)]
                      ELSE hx.out]
    /\ Curve32Others

Curve32Next ==
    \/ CoordsToHilbertEnter
    \/ CoordsToHilbertLevel
    \/ HilbertToCoordsLevel
    \/ HilbertToCoordsMap
    \/ HilbertToCoordsNorm
    \/ HilbertToCoordsRenormalize

SpecCurve32 == Curve32Init /\ [][Curve32Next]_vars

\* C29: in every call of hart_coords_to_hilbert and hart_hilbert_to_coords,
\* each index used by hilbert_transform to read or write the 4-element
\* coords array lies in 0..3, for every input point and every key.
C29_TransformIndexInArray ==
    (hx.phase \in {"enc_loop", "encoded", "dec_loop", "dec_mapped", "dec_norm",
                   "decoded", "out_of_bounds"}
     /\ hx.transform.called) =>
        hx.transform.d \in 0..3

(***************************************************************************)
(* Termination of hart_seed_unicode.  The calls are made with arguments    *)
(* from the whole uint32_t range.  After cp++ has wrapped past 0xFFFFFFFF  *)
(* the loop is followed for MaxAfterWrap further codepoints only.  The     *)
(* caller's thread keeps running: a step that is possible is eventually    *)
(* taken (weak fairness).                                                  *)
(***************************************************************************)
MaxAfterWrap == 3

\* 0xFFFFFFFF
UINT32_MAX == [top |-> 1, low |-> 2147483647]

WideRanges ==
    { <<[top |-> 1, low |-> 2147483647 - k], UINT32_MAX>> : k \in 0..2 }
    \cup { <<UINT32_MAX, U32(0)>>, <<U32(3), U32(2)>>, <<U32(0), U32(2)>>,
           <<U32(1114110), U32(1114111)>>, <<U32(55295), U32(55300)>> }

WideRequests ==
    { [fn |-> "unicode", conn |-> c, start_codepoint |-> r[1],
       end_codepoint |-> r[2], progress_callback |-> cb] :
        c \in BOOLEAN, r \in WideRanges, cb \in BOOLEAN }

\* cp has wrapped: it is below the first codepoint of the call
Wrapped == ~U32Leq(ing.start_codepoint, ing.cp)

TerminationInit ==
    /\ ing = NoCall
    /\ \E faulty \in BOOLEAN : db = NewDb(faulty)
    /\ \E req \in WideRequests : pending = <<req>>
    /\ hx = Idle /\ simd = Idle /\ hc = Idle

\* an iteration of the codepoint loop, followed up to MaxAfterWrap
\* codepoints past the wrap
UnicodeStepFollowed ==
    /\ ing.fn = "unicode"
    /\ Wrapped => ing.cp.low < MaxAfterWrap
    /\ UnicodeStep

TerminationNext == CallBegin \/ UnicodeStepFollowed \/ UnicodeFinish

SpecTermination ==
    TerminationInit /\ [][TerminationNext]_vars /\ WF_vars(TerminationNext)

\* the loop condition cp <= end_codepoint holds for every cp when
\* end_codepoint is 0xFFFFFFFF, and cp wraps in such calls only
LoopNeverExits ==
    (ing.fn = "unicode" /\ ing.phase = "loop") =>
        /\ ing.end_codepoint = UINT32_MAX => U32Leq(ing.cp, ing.end_codepoint)
        /\ Wrapped => ing.end_codepoint = UINT32_MAX

====
